---- MODULE Spec2Model ----
(***************************************************************************)
(* Model of the stock screener core (src/stock_screener/core.py) and of     *)
(* the criteria filter (src/stock_screener/data_provider.py).               *)
(*                                                                          *)
(* Numbers.  The program computes with Python floats.  A metric value is    *)
(* modelled as an exact fraction [n, d] with d > 0, and float('inf') as     *)
(* the fraction 1/0; comparisons are done by cross-multiplication, which     *)
(* orders +infinity above every finite value, as Python does.  Scores that   *)
(* the code builds from integer literals are integers.                      *)
(***************************************************************************)
EXTENDS Integers, Sequences, FiniteSets, TLC

VARIABLES
    custom_strategies,  \* StrategyBuilder.custom_strategies, in insertion order
    pc,                 \* "idle": no call in progress; "done": a call has returned or raised
    call,               \* the operation last called and its arguments
    ret,                \* what the call returned (NoValue when it raised)
    raised,             \* the exception the call raised ("none" when it returned)
    trace,              \* analyzer / rule evaluations the call performed, in order
    created,            \* history: <<name, returned id>> of every create_strategy call, in order
    threads,            \* concurrent callers of create_strategy (ConcSpec only)
    calculated_metrics  \* MetricsCalculator.calculated_metrics: what the calculator of the
                        \* analyzer last returned.  The engine, the builder and the
                        \* screener each hold an analyzer; the one variable stands for the
                        \* calculator of each, so that an analyzer also meets what a call
                        \* on another object left behind

vars == <<custom_strategies, pc, call, ret, raised, trace, created, threads,
          calculated_metrics>>

NoValue == [none |-> TRUE]

\* None in an Optional[float] field of the record
Unset == [none |-> TRUE]

\* the optional precomputed ratios of the record
OptionalFields ==
    {"pe_ratio", "pb_ratio", "peg_ratio", "roe", "roa", "debt_to_equity",
     "current_ratio", "quick_ratio", "debt_to_assets", "interest_coverage"}

------------------------------------------------------------------------------
(* Float values as fractions *)

Rat(num, den) == [n |-> num, d |-> den]
Num(k) == Rat(k, 1)
Inf == Rat(1, 0)
NegInf == Rat(-1, 0)

\* The largest finite float (sys.float_info.max), scaled down to the model's numbers:
\* the records of the grid stay far below it, the extreme records reach it
FloatMax == 100000

\* Python raises ZeroDivisionError for a float division by zero
ZeroDivisionError == [error |-> "ZeroDivisionError"]

\* The float num / den for integers num and den, the quotient and any factor of the
\* expression included: ZeroDivisionError when den is zero; an infinity of the
\* result's sign when its magnitude is beyond the largest finite float (IEEE 754
\* overflow, which Python's float arithmetic does not report); the fraction otherwise
Float(num, den) ==
    IF den = 0 THEN ZeroDivisionError
    ELSE LET sn == IF den < 0 THEN 0 - num ELSE num
             sd == IF den < 0 THEN 0 - den ELSE den
         IN  IF sn > FloatMax * sd THEN Inf
             ELSE IF 0 - sn > FloatMax * sd THEN NegInf
             ELSE Rat(sn, sd)

\* Python raises TypeError for an arithmetic operation on None
TypeError == [error |-> "TypeError"]

\* "value is None", for a value that is a number or None
IsNone(value) == ToString(value) = ToString(Unset)

\* stock.price / den: price is the one required field the provider can leave None
\* ("info.get('currentPrice') or info.get('regularMarketPrice', 0)")
PriceOver(price, den) == IF IsNone(price) THEN TypeError ELSE Float(price, den)

\* Python's a < b, a > b, a <= b, a >= b on floats (no NaN arises, see IsNumber)
Lt(a, b) == a.n * b.d < b.n * a.d
Gt(a, b) == Lt(b, a)
Le(a, b) == ~Lt(b, a)
Eq(a, b) == a.n * b.d = b.n * a.d
Ge(a, b) == ~Lt(a, b)
IsInf(a) == a.d = 0 /\ a.n > 0
IsNumber(a) == a.d > 0 \/ (a.d = 0 /\ a.n > 0)

Min(a, b) == IF a < b THEN a ELSE b
Max(a, b) == IF a > b THEN a ELSE b

------------------------------------------------------------------------------
(* MetricsCalculator *)

\* a guard on eps = 0 alone
calculate_pe_ratio_zero_guard(stock) ==
    IF stock.eps = 0 THEN Inf ELSE Float(stock.price, stock.eps)

calculate_pe_ratio(stock) ==
    IF stock.eps <= 0 THEN Inf ELSE PriceOver(stock.price, stock.eps)

calculate_pb_ratio(stock) ==
    IF stock.book_value_per_share <= 0 THEN Inf
    ELSE PriceOver(stock.price, stock.book_value_per_share)

\* pe_ratio is recomputed inline, before the test of the growth; inf / positive
\* growth is inf
calculate_peg_ratio(stock) ==
    IF stock.eps > 0 /\ IsNone(stock.price) THEN TypeError
    ELSE IF stock.earnings_growth <= 0 THEN Inf
    ELSE IF stock.eps > 0 THEN Float(stock.price, stock.eps * stock.earnings_growth)
    ELSE Inf

calculate_price_to_sales(stock) ==
    IF stock.revenue <= 0 THEN Inf ELSE Float(stock.market_cap, stock.revenue)

\* a calculator that takes the provider's roe when the record carries one
calculate_roe_provider_first(stock) ==
    LET equity == stock.total_assets - stock.total_liabilities
    IN  IF stock.roe # Unset THEN stock.roe
        ELSE IF equity <= 0 THEN Num(0) ELSE Float(stock.net_income * 100, equity)

calculate_roe(stock) ==
    LET equity == stock.total_assets - stock.total_liabilities
    IN  IF equity <= 0 THEN Num(0) ELSE Float(stock.net_income * 100, equity)

calculate_roa(stock) ==
    IF stock.total_assets <= 0 THEN Num(0)
    ELSE Float(stock.net_income * 100, stock.total_assets)

calculate_net_margin(stock) ==
    IF stock.revenue <= 0 THEN Num(0) ELSE Float(stock.net_income * 100, stock.revenue)

calculate_gross_margin(stock) ==
    IF stock.revenue <= 0 THEN Num(0) ELSE Float(stock.net_income * 100, stock.revenue)

calculate_operating_margin(stock) ==
    IF stock.revenue <= 0 THEN Num(0) ELSE Float(stock.net_income * 100, stock.revenue)

calculate_roic(stock) ==
    LET invested_capital ==
            stock.total_assets
              - (stock.total_assets - stock.total_liabilities - stock.cash)
    IN  IF invested_capital <= 0 THEN Num(0)
        ELSE Float(stock.net_income * 100, invested_capital)

\* a guard that lets a denominator of zero through
calculate_asset_turnover_zero_unguarded(stock) ==
    IF stock.total_assets < 0 THEN Num(0) ELSE Float(stock.revenue, stock.total_assets)

calculate_asset_turnover(stock) ==
    IF stock.total_assets <= 0 THEN Num(0) ELSE Float(stock.revenue, stock.total_assets)

calculate_equity_multiplier(stock) ==
    LET equity == stock.total_assets - stock.total_liabilities
    IN  IF equity <= 0 THEN Num(0) ELSE Float(stock.total_assets, equity)

calculate_current_ratio(stock) ==
    IF stock.total_liabilities <= 0 THEN Inf ELSE Float(stock.cash, stock.total_liabilities)

calculate_quick_ratio(stock) ==
    IF stock.total_liabilities <= 0 THEN Inf ELSE Float(stock.cash, stock.total_liabilities)

calculate_cash_ratio(stock) ==
    IF stock.total_liabilities <= 0 THEN Inf ELSE Float(stock.cash, stock.total_liabilities)

calculate_debt_to_equity(stock) ==
    LET equity == stock.total_assets - stock.total_liabilities
    IN  IF equity <= 0 THEN Inf ELSE Float(stock.debt, equity)

calculate_debt_to_assets(stock) ==
    IF stock.total_assets <= 0 THEN Num(0) ELSE Float(stock.debt, stock.total_assets)

calculate_equity_ratio(stock) ==
    IF stock.total_assets <= 0 THEN Num(0)
    ELSE Float((stock.total_assets - stock.total_liabilities) * 100, stock.total_assets)

\* a guard that falls back to 0 where the code falls back to +infinity
calculate_interest_coverage_zero_fallback(stock) ==
    IF stock.debt <= 0 THEN Num(0) ELSE Float(stock.net_income * 20, stock.debt)

\* interest_expense = debt * 0.05, so net_income / interest_expense = 20 * net_income / debt
calculate_interest_coverage(stock) ==
    IF stock.debt <= 0 THEN Inf ELSE Float(stock.net_income * 20, stock.debt)

calculate_all_metrics(stock) ==
    [ pe_ratio             |-> calculate_pe_ratio(stock),
      pb_ratio             |-> calculate_pb_ratio(stock),
      peg_ratio            |-> calculate_peg_ratio(stock),
      price_to_sales       |-> calculate_price_to_sales(stock),
      roe                  |-> calculate_roe(stock),
      roa                  |-> calculate_roa(stock),
      net_margin           |-> calculate_net_margin(stock),
      gross_margin         |-> calculate_gross_margin(stock),
      operating_margin     |-> calculate_operating_margin(stock),
      roic                 |-> calculate_roic(stock),
      asset_turnover       |-> calculate_asset_turnover(stock),
      equity_multiplier    |-> calculate_equity_multiplier(stock),
      current_ratio        |-> calculate_current_ratio(stock),
      quick_ratio          |-> calculate_quick_ratio(stock),
      cash_ratio           |-> calculate_cash_ratio(stock),
      debt_to_equity       |-> calculate_debt_to_equity(stock),
      debt_to_assets       |-> calculate_debt_to_assets(stock),
      equity_ratio         |-> calculate_equity_ratio(stock),
      interest_coverage    |-> calculate_interest_coverage(stock),
      revenue_growth       |-> Num(stock.revenue_growth),
      earnings_growth      |-> Num(stock.earnings_growth),
      dividend_yield       |-> Num(stock.dividend_yield),
      eps                  |-> Num(stock.eps),
      book_value_per_share |-> Num(stock.book_value_per_share),
      dividend_per_share   |-> Num(stock.dividend_per_share) ]

\* the dict {} a calculator starts with
EmptyDict == [empty |-> TRUE]

\* a calculator that answers from calculated_metrics once it holds a result
calculate_all_metrics_memoized(self, stock) ==
    IF self # EmptyDict
    THEN [ret |-> self, calculated_metrics |-> self]
    ELSE [ret |-> calculate_all_metrics(stock),
          calculated_metrics |-> calculate_all_metrics(stock)]

\* calculate_all_metrics as a method of a calculator whose calculated_metrics is
\* self: "metrics = {}", the assignments from the stock,
\* "self.calculated_metrics = metrics" and "return metrics"
calculate_all_metrics_on(self, stock) ==
    LET metrics == calculate_all_metrics(stock)
    IN  [ret |-> metrics, calculated_metrics |-> metrics]

\* the exception calculate_all_metrics raises for the stock, "none" when it
\* returns: a TypeError comes from the first assignments, those that read the price
exception_of(stock) ==
    LET metrics == calculate_all_metrics(stock)
        errors == {metrics[name].error :
                      name \in {n \in DOMAIN metrics : "error" \in DOMAIN metrics[n]}}
    IN  IF errors = {} THEN "none"
        ELSE IF "TypeError" \in errors THEN "TypeError"
        ELSE "ZeroDivisionError"

\* calculate_all_metrics raises when one of its divisions does
metrics_raise(stock) == exception_of(stock) # "none"

------------------------------------------------------------------------------
(* StockAnalyzer *)

\* one rule of a signal list: the tag when the condition holds, nothing otherwise
Tag(cond, tag) == IF cond THEN <<tag>> ELSE <<>>

\* _generate_signals with the dividend rule written as two independent tests
generate_signals_independent_tests(stock, metrics) ==
       (IF Lt(metrics.pe_ratio, Num(15)) THEN <<"UNDERVALUED_PE">>
        ELSE Tag(Gt(metrics.pe_ratio, Num(30)), "OVERVALUED_PE"))
    \o (IF Lt(metrics.pb_ratio, Num(1)) THEN <<"UNDERVALUED_BOOK">>
        ELSE Tag(Gt(metrics.pb_ratio, Num(3)), "OVERVALUED_BOOK"))
    \o Tag(Gt(metrics.roe, Num(15)), "HIGH_ROE")
    \o Tag(Gt(metrics.roa, Num(10)), "HIGH_ROA")
    \o Tag(Gt(metrics.net_margin, Num(20)), "HIGH_MARGIN")
    \o Tag(stock.revenue_growth > 20, "HIGH_REVENUE_GROWTH")
    \o Tag(stock.earnings_growth > 20, "HIGH_EARNINGS_GROWTH")
    \o Tag(stock.dividend_yield > 3, "HIGH_DIVIDEND_YIELD")
    \o Tag(stock.dividend_yield > 0, "PAYS_DIVIDEND")
    \o (IF Gt(metrics.current_ratio, Num(2)) THEN <<"STRONG_LIQUIDITY">>
        ELSE Tag(Lt(metrics.current_ratio, Num(1)), "WEAK_LIQUIDITY"))
    \o (IF Lt(metrics.debt_to_equity, Rat(1, 2)) THEN <<"LOW_DEBT">>
        ELSE Tag(Gt(metrics.debt_to_equity, Num(2)), "HIGH_DEBT"))

generate_signals(stock, metrics) ==
       (IF Lt(metrics.pe_ratio, Num(15)) THEN <<"UNDERVALUED_PE">>
        ELSE Tag(Gt(metrics.pe_ratio, Num(30)), "OVERVALUED_PE"))
    \o (IF Lt(metrics.pb_ratio, Num(1)) THEN <<"UNDERVALUED_BOOK">>
        ELSE Tag(Gt(metrics.pb_ratio, Num(3)), "OVERVALUED_BOOK"))
    \o Tag(Gt(metrics.roe, Num(15)), "HIGH_ROE")
    \o Tag(Gt(metrics.roa, Num(10)), "HIGH_ROA")
    \o Tag(Gt(metrics.net_margin, Num(20)), "HIGH_MARGIN")
    \o Tag(stock.revenue_growth > 20, "HIGH_REVENUE_GROWTH")
    \o Tag(stock.earnings_growth > 20, "HIGH_EARNINGS_GROWTH")
    \o (IF stock.dividend_yield > 3 THEN <<"HIGH_DIVIDEND_YIELD">>
        ELSE Tag(stock.dividend_yield > 0, "PAYS_DIVIDEND"))
    \o (IF Gt(metrics.current_ratio, Num(2)) THEN <<"STRONG_LIQUIDITY">>
        ELSE Tag(Lt(metrics.current_ratio, Num(1)), "WEAK_LIQUIDITY"))
    \o (IF Lt(metrics.debt_to_equity, Rat(1, 2)) THEN <<"LOW_DEBT">>
        ELSE Tag(Gt(metrics.debt_to_equity, Num(2)), "HIGH_DEBT"))

\* _calculate_risk_score with the thresholds included in the riskier band
calculate_risk_score_inclusive(stock, metrics) ==
    LET liquidity == IF Le(metrics.current_ratio, Num(1)) THEN 25
                     ELSE IF Le(metrics.current_ratio, Rat(3, 2)) THEN 10 ELSE 0
        debt == IF Ge(metrics.debt_to_equity, Num(2)) THEN 25
                ELSE IF Ge(metrics.debt_to_equity, Num(1)) THEN 10 ELSE 0
        profitability == IF Le(metrics.roe, Num(5)) THEN 20
                         ELSE IF Le(metrics.roe, Num(10)) THEN 10 ELSE 0
        growth == IF stock.revenue_growth <= -10 THEN 15
                  ELSE IF stock.revenue_growth <= 0 THEN 5 ELSE 0
    IN  Min(100, Max(0, liquidity + debt + profitability + growth))

calculate_risk_score(stock, metrics) ==
    LET liquidity == IF Lt(metrics.current_ratio, Num(1)) THEN 25
                     ELSE IF Lt(metrics.current_ratio, Rat(3, 2)) THEN 10 ELSE 0
        debt == IF Gt(metrics.debt_to_equity, Num(2)) THEN 25
                ELSE IF Gt(metrics.debt_to_equity, Num(1)) THEN 10 ELSE 0
        profitability == IF Lt(metrics.roe, Num(5)) THEN 20
                         ELSE IF Lt(metrics.roe, Num(10)) THEN 10 ELSE 0
        growth == IF stock.revenue_growth < -10 THEN 15
                  ELSE IF stock.revenue_growth < 0 THEN 5 ELSE 0
    IN  Min(100, Max(0, liquidity + debt + profitability + growth))

strength_score(stock, metrics) ==
    LET roe == metrics.roe
        debt_to_equity == metrics.debt_to_equity
        current_ratio == metrics.current_ratio
        revenue_growth == stock.revenue_growth
    IN    (IF Gt(roe, Num(15)) THEN 25 ELSE IF Gt(roe, Num(10)) THEN 15
           ELSE IF Gt(roe, Num(5)) THEN 5 ELSE 0)
        + (IF Lt(debt_to_equity, Rat(1, 2)) THEN 25 ELSE IF Lt(debt_to_equity, Num(1)) THEN 15
           ELSE IF Lt(debt_to_equity, Num(2)) THEN 5 ELSE 0)
        + (IF Gt(current_ratio, Rat(3, 2)) THEN 25
           ELSE IF Gt(current_ratio, Num(1)) THEN 15 ELSE 0)
        + (IF revenue_growth > 10 THEN 25 ELSE IF revenue_growth > 5 THEN 15
           ELSE IF revenue_growth > 0 THEN 5 ELSE 0)

\* _assess_fundamental_strength with the label thresholds excluded
assess_fundamental_strength_exclusive(stock, metrics) ==
    LET s == strength_score(stock, metrics)
    IN  IF s > 80 THEN "VERY_STRONG"
        ELSE IF s > 60 THEN "STRONG"
        ELSE IF s > 40 THEN "MODERATE"
        ELSE IF s > 20 THEN "WEAK"
        ELSE "VERY_WEAK"

assess_fundamental_strength(stock, metrics) ==
    LET s == strength_score(stock, metrics)
    IN  IF s >= 80 THEN "VERY_STRONG"
        ELSE IF s >= 60 THEN "STRONG"
        ELSE IF s >= 40 THEN "MODERATE"
        ELSE IF s >= 20 THEN "WEAK"
        ELSE "VERY_WEAK"

calculate_valuation_score(metrics) ==
    LET pe_ratio == metrics.pe_ratio
        pb_ratio == metrics.pb_ratio
        ps_ratio == metrics.price_to_sales
        score == 50
           + (IF Lt(pe_ratio, Num(10)) THEN 20 ELSE IF Lt(pe_ratio, Num(15)) THEN 15
              ELSE IF Lt(pe_ratio, Num(20)) THEN 10 ELSE IF Lt(pe_ratio, Num(30)) THEN 5
              ELSE -20)
           + (IF Lt(pb_ratio, Num(1)) THEN 20 ELSE IF Lt(pb_ratio, Rat(3, 2)) THEN 10
              ELSE IF Lt(pb_ratio, Rat(5, 2)) THEN 5 ELSE -10)
           + (IF Lt(ps_ratio, Num(1)) THEN 10 ELSE IF Lt(ps_ratio, Num(2)) THEN 5 ELSE 0)
    IN  Min(100, Max(0, score))

quality_score_sum(metrics) ==
    50
           + (IF Gt(metrics.roe, Num(20)) THEN 20 ELSE IF Gt(metrics.roe, Num(15)) THEN 15
              ELSE IF Gt(metrics.roe, Num(10)) THEN 10 ELSE 0)
           + (IF Gt(metrics.roa, Num(10)) THEN 15
              ELSE IF Gt(metrics.roa, Num(5)) THEN 10 ELSE 0)
           + (IF Gt(metrics.net_margin, Num(20)) THEN 15
              ELSE IF Gt(metrics.net_margin, Num(10)) THEN 10 ELSE 0)
           + (IF Lt(metrics.debt_to_equity, Rat(1, 2)) THEN 20
              ELSE IF Lt(metrics.debt_to_equity, Num(1)) THEN 10
              ELSE IF Gt(metrics.debt_to_equity, Num(2)) THEN -15 ELSE 0)
           + (IF Gt(metrics.current_ratio, Num(2)) THEN 10
              ELSE IF Lt(metrics.current_ratio, Num(1)) THEN -20 ELSE 0)

\* the quality score without its final clamp
calculate_quality_score_unclamped(metrics) ==
    quality_score_sum(metrics)

calculate_quality_score(metrics) ==
    Min(100, Max(0, quality_score_sum(metrics)))

calculate_growth_score(stock, metrics) ==
    LET peg == metrics.peg_ratio
        score == 50
           + (IF stock.revenue_growth > 30 THEN 25 ELSE IF stock.revenue_growth > 20 THEN 20
              ELSE IF stock.revenue_growth > 10 THEN 15 ELSE IF stock.revenue_growth > 5 THEN 10
              ELSE IF stock.revenue_growth < 0 THEN -25 ELSE 0)
           + (IF stock.earnings_growth > 30 THEN 25 ELSE IF stock.earnings_growth > 20 THEN 20
              ELSE IF stock.earnings_growth > 10 THEN 15 ELSE IF stock.earnings_growth > 5 THEN 10
              ELSE IF stock.earnings_growth < 0 THEN -25 ELSE 0)
           + (IF Lt(peg, Num(1)) /\ stock.earnings_growth > 0 THEN 20
              ELSE IF Lt(peg, Num(2)) /\ stock.earnings_growth > 0 THEN 10 ELSE 0)
    IN  Min(100, Max(0, score))

calculate_momentum_score(stock) ==
    LET score == 50
           + (IF stock.revenue_growth > 15 THEN 25 ELSE 0)
           + (IF stock.earnings_growth > 15 THEN 25 ELSE 0)
    IN  Min(100, Max(0, score))

\* StockAnalyzer.analyze as a method of an analyzer whose calculator's
\* calculated_metrics is self: the analysis returned and the field afterwards
analyze_on(self, stock) ==
    LET calculated == calculate_all_metrics_on(self, stock)
        metrics == calculated.ret
    IN  [ ret |->
            [ symbol               |-> stock.symbol,
              metrics              |-> metrics,
              signals              |-> generate_signals(stock, metrics),
              risk_score           |-> calculate_risk_score(stock, metrics),
              fundamental_strength |-> assess_fundamental_strength(stock, metrics),
              valuation_score      |-> calculate_valuation_score(metrics),
              quality_score        |-> calculate_quality_score(metrics),
              growth_score         |-> calculate_growth_score(stock, metrics),
              momentum_score       |-> calculate_momentum_score(stock) ],
          calculated_metrics |-> calculated.calculated_metrics ]

\* StockAnalyzer().analyze(stock): the first call on an analyzer just constructed
analyze(stock) == analyze_on(EmptyDict, stock).ret

------------------------------------------------------------------------------
(* ScreeningEngine: the six strategy scorers *)

\* one fired band of a scorer: its points and the signals it appends
Band(points, sigs) == [pts |-> points, sig |-> sigs]
NoBand == Band(0, <<>>)

\* _screen_value with the breakpoints of the P/E and P/B ladders included
screen_value_bands_inclusive(stock, analysis) ==
    LET pe_ratio == analysis.metrics.pe_ratio
        pb_ratio == analysis.metrics.pb_ratio
        ps_ratio == analysis.metrics.price_to_sales
        roe == analysis.metrics.roe
    IN  << IF Le(pe_ratio, Num(10)) THEN Band(30, <<"VERY_LOW_PE">>)
           ELSE IF Le(pe_ratio, Num(15)) THEN Band(20, <<"LOW_PE">>)
           ELSE IF Le(pe_ratio, Num(20)) THEN Band(10, <<>>) ELSE NoBand,
           IF Le(pb_ratio, Num(1)) THEN Band(25, <<"LOW_PB">>)
           ELSE IF Le(pb_ratio, Rat(3, 2)) THEN Band(15, <<>>) ELSE NoBand,
           IF Lt(ps_ratio, Num(1)) THEN Band(15, <<"LOW_PS">>)
           ELSE IF Lt(ps_ratio, Num(2)) THEN Band(10, <<>>) ELSE NoBand,
           IF Gt(roe, Num(10)) THEN Band(20, <<"DECENT_ROE">>) ELSE NoBand,
           IF stock.earnings_growth >= 0 THEN Band(10, <<>>) ELSE NoBand >>

screen_value_bands(stock, analysis) ==
    LET pe_ratio == analysis.metrics.pe_ratio
        pb_ratio == analysis.metrics.pb_ratio
        ps_ratio == analysis.metrics.price_to_sales
        roe == analysis.metrics.roe
    IN  << IF Lt(pe_ratio, Num(10)) THEN Band(30, <<"VERY_LOW_PE">>)
           ELSE IF Lt(pe_ratio, Num(15)) THEN Band(20, <<"LOW_PE">>)
           ELSE IF Lt(pe_ratio, Num(20)) THEN Band(10, <<>>) ELSE NoBand,
           IF Lt(pb_ratio, Num(1)) THEN Band(25, <<"LOW_PB">>)
           ELSE IF Lt(pb_ratio, Rat(3, 2)) THEN Band(15, <<>>) ELSE NoBand,
           IF Lt(ps_ratio, Num(1)) THEN Band(15, <<"LOW_PS">>)
           ELSE IF Lt(ps_ratio, Num(2)) THEN Band(10, <<>>) ELSE NoBand,
           IF Gt(roe, Num(10)) THEN Band(20, <<"DECENT_ROE">>) ELSE NoBand,
           IF stock.earnings_growth >= 0 THEN Band(10, <<>>) ELSE NoBand >>

\* _screen_growth with 20 points for the return on equity
screen_growth_bands_roe_20(stock, analysis) ==
    LET revenue_growth == stock.revenue_growth
        earnings_growth == stock.earnings_growth
        peg_ratio == analysis.metrics.peg_ratio
        roe == analysis.metrics.roe
    IN  << IF revenue_growth > 30 THEN Band(30, <<"VERY_HIGH_REVENUE_GROWTH">>)
           ELSE IF revenue_growth > 20 THEN Band(25, <<"HIGH_REVENUE_GROWTH">>)
           ELSE IF revenue_growth > 10 THEN Band(15, <<>>) ELSE NoBand,
           IF earnings_growth > 30 THEN Band(30, <<"VERY_HIGH_EARNINGS_GROWTH">>)
           ELSE IF earnings_growth > 20 THEN Band(25, <<"HIGH_EARNINGS_GROWTH">>)
           ELSE IF earnings_growth > 10 THEN Band(15, <<>>) ELSE NoBand,
           IF Lt(peg_ratio, Num(1)) THEN Band(20, <<"GOOD_PEG">>)
           ELSE IF Lt(peg_ratio, Num(2)) THEN Band(10, <<>>) ELSE NoBand,
           IF Gt(roe, Num(15)) THEN Band(20, <<>>) ELSE NoBand >>

screen_growth_bands(stock, analysis) ==
    LET revenue_growth == stock.revenue_growth
        earnings_growth == stock.earnings_growth
        peg_ratio == analysis.metrics.peg_ratio
        roe == analysis.metrics.roe
    IN  << IF revenue_growth > 30 THEN Band(30, <<"VERY_HIGH_REVENUE_GROWTH">>)
           ELSE IF revenue_growth > 20 THEN Band(25, <<"HIGH_REVENUE_GROWTH">>)
           ELSE IF revenue_growth > 10 THEN Band(15, <<>>) ELSE NoBand,
           IF earnings_growth > 30 THEN Band(30, <<"VERY_HIGH_EARNINGS_GROWTH">>)
           ELSE IF earnings_growth > 20 THEN Band(25, <<"HIGH_EARNINGS_GROWTH">>)
           ELSE IF earnings_growth > 10 THEN Band(15, <<>>) ELSE NoBand,
           IF Lt(peg_ratio, Num(1)) THEN Band(20, <<"GOOD_PEG">>)
           ELSE IF Lt(peg_ratio, Num(2)) THEN Band(10, <<>>) ELSE NoBand,
           IF Gt(roe, Num(15)) THEN Band(15, <<>>) ELSE NoBand >>

screen_dividend_bands(stock, analysis) ==
    LET dividend_yield == stock.dividend_yield
        dps == stock.dividend_per_share
        roe == analysis.metrics.roe
        debt_to_equity == analysis.metrics.debt_to_equity
    IN  << IF dividend_yield >= 5 THEN Band(30, <<"VERY_HIGH_YIELD">>)
           ELSE IF dividend_yield >= 3 THEN Band(25, <<"HIGH_YIELD">>)
           ELSE IF dividend_yield >= 2 THEN Band(15, <<"MODERATE_YIELD">>)
           ELSE IF dps > 0 THEN Band(5, <<"PAYS_DIVIDEND">>) ELSE NoBand,
           IF Gt(roe, Num(10)) THEN Band(20, <<"SUSTAINABLE_DIVIDEND">>) ELSE NoBand,
           IF Lt(debt_to_equity, Num(1)) THEN Band(15, <<>>)
           ELSE IF Lt(debt_to_equity, Num(2)) THEN Band(10, <<>>) ELSE NoBand,
           IF stock.earnings_growth >= -5 THEN Band(10, <<>>) ELSE NoBand >>

screen_momentum_bands(stock, analysis) ==
    LET revenue_growth == stock.revenue_growth
        earnings_growth == stock.earnings_growth
        momentum_score == analysis.momentum_score
    IN  << IF earnings_growth > 25 THEN Band(35, <<"STRONG_MOMENTUM">>)
           ELSE IF earnings_growth > 15 THEN Band(25, <<"MODERATE_MOMENTUM">>)
           ELSE IF earnings_growth > 5 THEN Band(15, <<>>) ELSE NoBand,
           IF revenue_growth > 20 THEN Band(20, <<>>) ELSE NoBand,
           IF momentum_score > 70 THEN Band(15, <<>>) ELSE NoBand >>

screen_quality_bands(stock, analysis) ==
    LET quality_score == analysis.quality_score
        roe == analysis.metrics.roe
        roa == analysis.metrics.roa
        debt_to_equity == analysis.metrics.debt_to_equity
        current_ratio == analysis.metrics.current_ratio
        net_margin == analysis.metrics.net_margin
    IN  << IF quality_score > 80 THEN Band(30, <<"HIGH_QUALITY">>)
           ELSE IF quality_score > 70 THEN Band(20, <<"GOOD_QUALITY">>) ELSE NoBand,
           IF Gt(roe, Num(20)) THEN Band(20, <<"EXCELLENT_ROE">>)
           ELSE IF Gt(roe, Num(15)) THEN Band(15, <<>>) ELSE NoBand,
           IF Gt(roa, Num(10)) THEN Band(15, <<>>) ELSE NoBand,
           IF Lt(debt_to_equity, Rat(1, 2)) THEN Band(20, <<"VERY_LOW_DEBT">>)
           ELSE IF Lt(debt_to_equity, Num(1)) THEN Band(10, <<>>) ELSE NoBand,
           IF Gt(current_ratio, Num(2)) THEN Band(10, <<"STRONG_LIQUIDITY">>) ELSE NoBand,
           IF Gt(net_margin, Num(15)) THEN Band(10, <<>>) ELSE NoBand >>

screen_contrarian_bands(stock, analysis) ==
    LET pe_ratio == analysis.metrics.pe_ratio
        pb_ratio == analysis.metrics.pb_ratio
        valuation_score == analysis.valuation_score
        revenue_growth == stock.revenue_growth
        roe == analysis.metrics.roe
    IN  << IF Lt(pe_ratio, Num(8)) THEN Band(30, <<"EXTREMELY_UNDERVALUED">>)
           ELSE IF Lt(pe_ratio, Num(12)) THEN Band(20, <<"SIGNIFICANTLY_UNDERVALUED">>)
           ELSE NoBand,
           IF Lt(pb_ratio, Rat(4, 5)) THEN Band(20, <<>>) ELSE NoBand,
           IF valuation_score > 70 THEN Band(25, <<"MARKET_UNDERVALUATION">>) ELSE NoBand,
           IF Gt(roe, Num(10)) /\ revenue_growth >= 0 THEN Band(20, <<"HIDDEN_VALUE">>)
           ELSE NoBand >>

RECURSIVE SumPoints(_)
SumPoints(bands) ==
    IF bands = <<>> THEN 0 ELSE Head(bands).pts + SumPoints(Tail(bands))

RECURSIVE AllSignals(_)
AllSignals(bands) ==
    IF bands = <<>> THEN <<>> ELSE Head(bands).sig \o AllSignals(Tail(bands))

\* a scorer that returns its sum without the cap
Scored_uncapped(bands) == [score |-> SumPoints(bands), signals |-> AllSignals(bands)]

\* the "return min(100, score), signals" that ends each scorer
Scored(bands) == [score |-> Min(100, SumPoints(bands)), signals |-> AllSignals(bands)]

screen_value(stock, analysis)      == Scored(screen_value_bands(stock, analysis))
screen_growth(stock, analysis)     == Scored(screen_growth_bands(stock, analysis))
screen_dividend(stock, analysis)   == Scored(screen_dividend_bands(stock, analysis))
screen_momentum(stock, analysis)   == Scored(screen_momentum_bands(stock, analysis))
screen_quality(stock, analysis)    == Scored(screen_quality_bands(stock, analysis))
screen_contrarian(stock, analysis) == Scored(screen_contrarian_bands(stock, analysis))

\* the members of the enumeration ScreeningStrategy
ScreeningStrategy ==
    { "VALUE_INVESTING", "GROWTH_INVESTING", "DIVIDEND_INVESTING",
      "MOMENTUM_INVESTING", "QUALITY_INVESTING", "CONTRARIAN" }

\* ScreeningEngine.strategies: member -> scorer
strategies ==
    [ VALUE_INVESTING    |-> "_screen_value",
      GROWTH_INVESTING   |-> "_screen_growth",
      DIVIDEND_INVESTING |-> "_screen_dividend",
      MOMENTUM_INVESTING |-> "_screen_momentum",
      QUALITY_INVESTING  |-> "_screen_quality",
      CONTRARIAN         |-> "_screen_contrarian" ]

None == "None"

\* a lookup that falls back to the value scorer
strategies_get_default(strategy) ==
    IF strategy \in DOMAIN strategies THEN strategies[strategy] ELSE "_screen_value"

\* self.strategies.get(strategy)
strategies_get(strategy) ==
    IF strategy \in DOMAIN strategies THEN strategies[strategy] ELSE None

\* calling the scorer the lookup found
screening_func(scorer, stock, analysis) ==
    CASE scorer = "_screen_value"      -> screen_value(stock, analysis)
      [] scorer = "_screen_growth"     -> screen_growth(stock, analysis)
      [] scorer = "_screen_dividend"   -> screen_dividend(stock, analysis)
      [] scorer = "_screen_momentum"   -> screen_momentum(stock, analysis)
      [] scorer = "_screen_quality"    -> screen_quality(stock, analysis)
      [] scorer = "_screen_contrarian" -> screen_contrarian(stock, analysis)

------------------------------------------------------------------------------
(* ScreeningEngine.screen *)

\* ScreeningResult; the timestamp (datetime.utcnow()) is left out
ScreeningResult(sym, sc, strat, mets, sigs) ==
    [symbol |-> sym, score |-> sc, strategy |-> strat, metrics |-> mets, signals |-> sigs]

\* sorted(results, key=lambda x: x.score, reverse=True): a stable sort, so a result
\* goes behind every result already placed whose score is >= its own
RECURSIVE InsertByScore(_, _)
InsertByScore(sorted, r) ==
    IF sorted = <<>> THEN <<r>>
    ELSE IF Ge(Head(sorted).score, r.score)
         THEN <<Head(sorted)>> \o InsertByScore(Tail(sorted), r)
         ELSE <<r>> \o sorted

RECURSIVE SortedFrom(_, _)
SortedFrom(sorted, results) ==
    IF results = <<>> THEN sorted
    ELSE SortedFrom(InsertByScore(sorted, Head(results)), Tail(results))

\* the results returned in the order of the loop
unsorted(results) == results

sorted_by_score_desc(results) == SortedFrom(<<>>, results)

\* the threshold test with a strict comparison
passes_threshold_strict(score, threshold) == Gt(score, threshold)

\* "if score >= threshold" of both screening loops
passes_threshold(score, threshold) == Ge(score, threshold)

\* the loop "for stock in stocks" of ScreeningEngine.screen on an engine whose
\* analyzer's calculator holds self: the results appended, the number of analyze
\* calls made, the exception that ended the loop ("none" when it ran to its end),
\* and the field afterwards
RECURSIVE screen_loop(_, _, _, _, _)
screen_loop(self, stocks, scorer, strategy, threshold) ==
    IF stocks = <<>>
    THEN [results |-> <<>>, analyzed |-> 0, raised |-> "none", calculated_metrics |-> self]
    ELSE IF metrics_raise(Head(stocks))
    THEN [results |-> <<>>, analyzed |-> 1, raised |-> exception_of(Head(stocks)),
          calculated_metrics |-> self]
    ELSE LET stock == Head(stocks)
             analyzed == analyze_on(self, stock)
             analysis == analyzed.ret
             scored == screening_func(scorer, stock, analysis)
             rest == screen_loop(analyzed.calculated_metrics, Tail(stocks), scorer,
                                 strategy, threshold)
         IN  [ results |->
                 (IF passes_threshold(Num(scored.score), threshold)
                  THEN <<ScreeningResult(stock.symbol, Num(scored.score), strategy,
                                         analysis.metrics, scored.signals)>>
                  ELSE <<>>) \o rest.results,
               analyzed |-> 1 + rest.analyzed,
               raised |-> rest.raised,
               calculated_metrics |-> rest.calculated_metrics ]

\* the analyzer calls of a loop over stocks, in order
AnalyzeEvents(stocks) == [i \in 1..Len(stocks) |-> <<"analyze", stocks[i].symbol>>]

------------------------------------------------------------------------------
(* StrategyBuilder *)

\* Strings that the code builds are sequences of characters
Digits == <<"0", "1", "2", "3", "4", "5", "6", "7", "8", "9">>

\* Python's str(n) for n >= 0
RECURSIVE str(_)
str(n) == IF n < 10 THEN <<Digits[n + 1]>> ELSE str(n \div 10) \o <<Digits[(n % 10) + 1]>>

\* f"custom_{name}_{n}"
format_strategy_id(name, n) ==
    <<"c", "u", "s", "t", "o", "m", "_">> \o name \o <<"_">> \o str(n)

\* the dict custom_strategies as the sequence of its items, in insertion order
dict_keys(d) == [i \in 1..Len(d) |-> d[i].id]
dict_has(d, key) == \E i \in 1..Len(d) : d[i].id = key
dict_get(d, key) == d[CHOOSE i \in 1..Len(d) : d[i].id = key].value
\* the registry assigned anew on every store
dict_set_anew(d, key, value) == <<[id |-> key, value |-> value]>>

\* d[key] = value: a new key goes last, an existing key keeps its place
dict_set(d, key, value) ==
    IF dict_has(d, key)
    THEN [i \in 1..Len(d) |-> IF d[i].id = key THEN [id |-> key, value |-> value] ELSE d[i]]
    ELSE Append(d, [id |-> key, value |-> value])

\* a lookup that falls back to the first strategy registered
lookup_strategy_default(d, strategy_id) ==
    IF dict_has(d, strategy_id) THEN dict_get(d, strategy_id)
    ELSE IF d # <<>> THEN d[1].value ELSE NoValue

\* the entry stored under strategy_id, NoValue when "strategy_id not in
\* self.custom_strategies"
lookup_strategy(d, strategy_id) ==
    IF dict_has(d, strategy_id) THEN dict_get(d, strategy_id) ELSE NoValue

\* the entry create_strategy stores; created_at (datetime.utcnow()) is left out
strategy_entry(name, rules) == [name |-> name, rules |-> rules]

\* an id without the ordinal: f"custom_{name}"
new_strategy_id_no_ordinal(d, name) == <<"c", "u", "s", "t", "o", "m", "_">> \o name

\* the key create_strategy stores the entry under
new_strategy_id(d, name) == format_strategy_id(name, Len(d))

\* Calling a rule: "true", "false" or "raise".  The rules are those of the four
\* convenience builders with their default parameters, and payout_rule, a rule of
\* the caller that reads metrics['payout_ratio'], a key the metrics map never has.
rule_call(rule, stock, analysis) ==
    LET m == analysis.metrics
        bool(b) == IF b THEN "true" ELSE "false"
    IN  CASE rule = "pe_rule" -> bool(Le(Num(10), m.pe_ratio) /\ Le(m.pe_ratio, Num(20)))
          [] rule = "roe_rule" -> bool(Ge(m.roe, Num(15)))
          [] rule = "debt_rule" -> bool(Le(m.debt_to_equity, Num(1)))
          [] rule = "liquidity_rule" -> bool(Ge(m.current_ratio, Rat(3, 2)))
          [] rule = "revenue_rule" -> bool(stock.revenue_growth >= 15)
          [] rule = "earnings_rule" -> bool(stock.earnings_growth >= 15)
          [] rule = "peg_rule" -> bool(Lt(m.peg_ratio, Num(2)) /\ ~IsInf(m.peg_ratio))
          [] rule = "yield_rule" -> bool(stock.dividend_yield >= 3)
          [] rule = "sustainability_rule" ->
                bool(Ge(m.roe, Num(10)) /\ Lt(m.debt_to_equity, Num(1)))
          [] rule = "payout_rule" -> "raise"

\* "for i, rule in enumerate(strategy['rules'])" with its try / except: the
\* outcome of every rule, in order; a rule that raises is passed over
rule_outcomes(rules, stock, analysis) ==
    [i \in 1..Len(rules) |-> rule_call(rules[i], stock, analysis)]

\* a rule that raises counted as a match
rule_matched_or_raised(outcome) == outcome \in {"true", "raise"}

\* whether the rule with this outcome adds to match_count and to the signals
rule_matched(outcome) == outcome = "true"

match_count(outcomes) == Cardinality({i \in 1..Len(outcomes) : rule_matched(outcomes[i])})

\* the tag with the index counted from 1
rule_signal_from_one(i) == <<"R", "U", "L", "E", "_">> \o str(i + 1)

\* f"RULE_{i}"
rule_signal(i) == <<"R", "U", "L", "E", "_">> \o str(i)

RECURSIVE matching_signals_from(_, _)
matching_signals_from(outcomes, i) ==
    IF i > Len(outcomes) THEN <<>>
    ELSE (IF rule_matched(outcomes[i]) THEN <<rule_signal(i - 1)>> ELSE <<>>)
         \o matching_signals_from(outcomes, i + 1)

matching_signals(outcomes) == matching_signals_from(outcomes, 1)

\* score = (match_count / len(strategy['rules'])) * 100, for len > 0
custom_score(outcomes) == Rat(match_count(outcomes) * 100, Len(outcomes))

\* the events of one pass of the loop over stocks
custom_events(rules, stock, analysis) ==
    <<<<"analyze", stock.symbol>>>>
    \o [i \in 1..Len(rules) |->
           <<"rule", i - 1, stock.symbol, rule_call(rules[i], stock, analysis)>>]

\* the loop "for stock in stocks" of screen_with_custom_strategy, for len(rules) > 0,
\* on a builder whose analyzer's calculator holds self; raised is the exception of
\* an analyze call that ended the loop
RECURSIVE custom_loop(_, _, _, _)
custom_loop(self, stocks, rules, threshold) ==
    IF stocks = <<>>
    THEN [results |-> <<>>, events |-> <<>>, raised |-> "none", calculated_metrics |-> self]
    ELSE IF metrics_raise(Head(stocks))
    THEN [results |-> <<>>, events |-> <<<<"analyze", Head(stocks).symbol>>>>,
          raised |-> exception_of(Head(stocks)), calculated_metrics |-> self]
    ELSE LET stock == Head(stocks)
             analyzed == analyze_on(self, stock)
             analysis == analyzed.ret
             outcomes == rule_outcomes(rules, stock, analysis)
             score == custom_score(outcomes)
             rest == custom_loop(analyzed.calculated_metrics, Tail(stocks), rules, threshold)
             result == ScreeningResult(stock.symbol, score, "VALUE_INVESTING",
                                       analysis.metrics, matching_signals(outcomes))
         IN  [ results |-> (IF passes_threshold(score, threshold) THEN <<result>> ELSE <<>>)
                           \o rest.results,
               events  |-> custom_events(rules, stock, analysis) \o rest.events,
               raised  |-> rest.raised,
               calculated_metrics |-> rest.calculated_metrics ]

------------------------------------------------------------------------------
(* StockScreener._apply_criteria *)

\* the local dict metric_map
metric_map ==
    [ pe_ratio |-> "pe_ratio", pb_ratio |-> "pb_ratio", roe |-> "roe", roa |-> "roa",
      debt_to_equity |-> "debt_to_equity", current_ratio |-> "current_ratio",
      dividend_yield |-> "dividend_yield", revenue_growth |-> "revenue_growth",
      earnings_growth |-> "earnings_growth", payout_ratio |-> "payout_ratio",
      interest_coverage |-> "interest_coverage", debt_to_assets |-> "debt_to_assets",
      free_cash_flow |-> "free_cash_flow", years_of_dividends |-> "years_of_dividends" ]

\* metric_map.get(metric, metric)
actual_metric(metric) ==
    IF metric \in DOMAIN metric_map THEN metric_map[metric] ELSE metric

\* "if actual_metric in metrics ... elif hasattr(stock, actual_metric) ... else continue":
\* whether the criterion has a value to check, and the value
criterion_resolves(stock, metrics, metric) ==
    actual_metric(metric) \in DOMAIN metrics \/ actual_metric(metric) \in DOMAIN stock

\* a resolution that reads the record's own field first when the provider set it
criterion_value_record_first(stock, metrics, metric) ==
    IF actual_metric(metric) \in DOMAIN stock /\ actual_metric(metric) \notin DOMAIN metrics
    THEN Num(stock[actual_metric(metric)])
    ELSE IF actual_metric(metric) \in OptionalFields /\ stock[actual_metric(metric)] # Unset
         THEN stock[actual_metric(metric)]
         ELSE metrics[actual_metric(metric)]

criterion_value(stock, metrics, metric) ==
    IF actual_metric(metric) \in DOMAIN metrics THEN metrics[actual_metric(metric)]
    ELSE Num(stock[actual_metric(metric)])

\* bound checks that exclude the bounds themselves
bounds_fail_exclusive(value, bounds) ==
    \/ "min" \in DOMAIN bounds /\ Le(value, bounds.min)
    \/ "max" \in DOMAIN bounds /\ Ge(value, bounds.max)

\* the two bound checks: TRUE when one of them sets passes = False
bounds_fail(value, bounds) ==
    \/ "min" \in DOMAIN bounds /\ Lt(value, bounds.min)
    \/ "max" \in DOMAIN bounds /\ Gt(value, bounds.max)

\* a loop in which a criterion that resolves to no value fails the record
RECURSIVE criteria_pass_strict(_, _, _)
criteria_pass_strict(stock, metrics, criteria) ==
    IF criteria = <<>> THEN TRUE
    ELSE LET metric == Head(criteria).metric
             bounds == Head(criteria).bounds
         IN  IF ~criterion_resolves(stock, metrics, metric)
             THEN FALSE
             ELSE IF bounds_fail(criterion_value(stock, metrics, metric), bounds)
                  THEN FALSE
                  ELSE criteria_pass_strict(stock, metrics, Tail(criteria))

\* the loop "for metric, bounds in criteria.items()": the value of passes after it;
\* criteria is the sequence of the items of the dict
RECURSIVE criteria_pass(_, _, _)
criteria_pass(stock, metrics, criteria) ==
    IF criteria = <<>> THEN TRUE
    ELSE LET metric == Head(criteria).metric
             bounds == Head(criteria).bounds
         IN  IF ~criterion_resolves(stock, metrics, metric)
             THEN criteria_pass(stock, metrics, Tail(criteria))
             ELSE IF bounds_fail(criterion_value(stock, metrics, metric), bounds)
                  THEN FALSE
                  ELSE criteria_pass(stock, metrics, Tail(criteria))

\* the loop "for stock in stocks" on a screener whose analyzer's calculator holds
\* self: the list filtered, the number of analyze calls made, the exception that
\* ended the loop, and the field afterwards
RECURSIVE filter_stocks(_, _, _)
filter_stocks(self, stocks, criteria) ==
    IF stocks = <<>>
    THEN [filtered |-> <<>>, analyzed |-> 0, raised |-> "none", calculated_metrics |-> self]
    ELSE IF metrics_raise(Head(stocks))
    THEN [filtered |-> <<>>, analyzed |-> 1, raised |-> exception_of(Head(stocks)),
          calculated_metrics |-> self]
    ELSE LET stock == Head(stocks)
             analyzed == analyze_on(self, stock)
             analysis == analyzed.ret
             rest == filter_stocks(analyzed.calculated_metrics, Tail(stocks), criteria)
         IN  [ filtered |->
                 (IF criteria_pass(stock, analysis.metrics, criteria) THEN <<stock>> ELSE <<>>)
                 \o rest.filtered,
               analyzed |-> 1 + rest.analyzed,
               raised |-> rest.raised,
               calculated_metrics |-> rest.calculated_metrics ]

------------------------------------------------------------------------------
(* strategies.py: the strategy classes, and StockScreener.screen_stocks *)

Criterion(metric, bounds) == [metric |-> metric, bounds |-> bounds]

StrategyClasses ==
    {"ValueStrategy", "GrowthStrategy", "DividendStrategy", "QualityStrategy",
     "MomentumStrategy", "GARPStrategy"}

\* default_criteria of each class's __init__, as the items of the dict in order
default_criteria ==
    [ ValueStrategy    |-> << Criterion("pe_ratio", [max |-> Num(15)]),
                              Criterion("pb_ratio", [max |-> Rat(3, 2)]),
                              Criterion("roe", [min |-> Rat(10, 100)]),
                              Criterion("debt_to_equity", [max |-> Num(1)]),
                              Criterion("current_ratio", [min |-> Rat(3, 2)]) >>,
      GrowthStrategy   |-> << Criterion("revenue_growth", [min |-> Rat(15, 100)]),
                              Criterion("earnings_growth", [min |-> Rat(15, 100)]),
                              Criterion("pe_ratio", [min |-> Num(15), max |-> Num(50)]),
                              Criterion("roe", [min |-> Rat(15, 100)]) >>,
      DividendStrategy |-> << Criterion("dividend_yield", [min |-> Rat(3, 100)]),
                              Criterion("payout_ratio", [max |-> Rat(70, 100)]),
                              Criterion("debt_to_equity", [max |-> Num(1)]),
                              Criterion("current_ratio", [min |-> Num(1)]) >>,
      QualityStrategy  |-> << Criterion("roe", [min |-> Rat(15, 100)]),
                              Criterion("roa", [min |-> Rat(10, 100)]),
                              Criterion("debt_to_equity", [max |-> Num(1)]),
                              Criterion("current_ratio", [min |-> Num(2)]),
                              Criterion("interest_coverage", [min |-> Num(5)]) >>,
      MomentumStrategy |-> << Criterion("earnings_growth", [min |-> Rat(20, 100)]),
                              Criterion("revenue_growth", [min |-> Rat(15, 100)]) >>,
      GARPStrategy     |-> << Criterion("pe_ratio", [min |-> Num(10), max |-> Num(25)]),
                              Criterion("earnings_growth", [min |-> Rat(10, 100)]),
                              Criterion("revenue_growth", [min |-> Rat(10, 100)]),
                              Criterion("roe", [min |-> Rat(12, 100)]),
                              Criterion("debt_to_equity", [max |-> Rat(3, 2)]) >> ]

\* "x / 100" on a float
div100(a) == IF a.d = 0 THEN a ELSE Float(a.n, a.d * 100)

\* one row of the DataFrame screen_stocks returns
screen_stocks_row(stock, analysis) ==
        [ symbol               |-> stock.symbol,
          current_price        |-> Num(stock.price),
          pe_ratio             |-> analysis.metrics.pe_ratio,
          pb_ratio             |-> analysis.metrics.pb_ratio,
          roe                  |-> div100(analysis.metrics.roe),
          roa                  |-> div100(analysis.metrics.roa),
          dividend_yield       |-> div100(Num(stock.dividend_yield)),
          debt_to_equity       |-> analysis.metrics.debt_to_equity,
          current_ratio        |-> analysis.metrics.current_ratio,
          revenue_growth       |-> div100(Num(stock.revenue_growth)),
          earnings_growth      |-> div100(Num(stock.earnings_growth)),
          payout_ratio         |-> Num(0),
          fundamental_strength |-> analysis.fundamental_strength,
          quality_score        |-> analysis.quality_score,
          valuation_score      |-> analysis.valuation_score ]

\* the loop "for stock in filtered_stocks" of screen_stocks: the rows appended, and
\* the field of the analyzer's calculator afterwards
RECURSIVE screen_stocks_rows(_, _)
screen_stocks_rows(self, filtered_stocks) ==
    IF filtered_stocks = <<>>
    THEN [results |-> <<>>, analyzed |-> 0, raised |-> "none", calculated_metrics |-> self]
    ELSE IF metrics_raise(Head(filtered_stocks))
    THEN [results |-> <<>>, analyzed |-> 1, raised |-> exception_of(Head(filtered_stocks)),
          calculated_metrics |-> self]
    ELSE LET stock == Head(filtered_stocks)
             analyzed == analyze_on(self, stock)
             rest == screen_stocks_rows(analyzed.calculated_metrics, Tail(filtered_stocks))
         IN  [ results |-> <<screen_stocks_row(stock, analyzed.ret)>> \o rest.results,
               analyzed |-> 1 + rest.analyzed,
               raised |-> rest.raised,
               calculated_metrics |-> rest.calculated_metrics ]

\* the criteria screen_stocks filters by: the strategy's when a strategy is given
effective_criteria(strategy, criteria) ==
    IF strategy # None THEN default_criteria[strategy] ELSE criteria

\* the result of analyze_stock for a stock fetched: the keys computed from the
\* record and its analysis (those read from the provider's info dict and the
\* constant ones are left out)
analyze_stock_result(stock_data, analysis) ==
    [ symbol               |-> stock_data.symbol,
      current_price        |-> stock_data.price,
      market_cap           |-> stock_data.market_cap,
      pe_ratio             |-> analysis.metrics.pe_ratio,
      pb_ratio             |-> analysis.metrics.pb_ratio,
      ps_ratio             |-> analysis.metrics.price_to_sales,
      peg_ratio            |-> analysis.metrics.peg_ratio,
      roe                  |-> div100(analysis.metrics.roe),
      roa                  |-> div100(analysis.metrics.roa),
      roic                 |-> div100(analysis.metrics.roic),
      net_margin           |-> div100(analysis.metrics.net_margin),
      gross_margin         |-> div100(analysis.metrics.gross_margin),
      operating_margin     |-> div100(analysis.metrics.operating_margin),
      revenue_growth       |-> div100(Num(stock_data.revenue_growth)),
      earnings_growth      |-> div100(Num(stock_data.earnings_growth)),
      current_ratio        |-> analysis.metrics.current_ratio,
      quick_ratio          |-> analysis.metrics.quick_ratio,
      debt_to_equity       |-> analysis.metrics.debt_to_equity,
      debt_to_assets       |-> analysis.metrics.debt_to_assets,
      interest_coverage    |-> analysis.metrics.interest_coverage,
      dividend_yield       |-> div100(Num(stock_data.dividend_yield)),
      annual_dividend      |-> stock_data.dividend_per_share,
      quality_score        |-> Float(analysis.quality_score, 10),
      signals              |-> analysis.signals,
      risk_score           |-> analysis.risk_score,
      fundamental_strength |-> analysis.fundamental_strength,
      valuation_score      |-> analysis.valuation_score,
      growth_score         |-> analysis.growth_score,
      momentum_score       |-> analysis.momentum_score ]

\* the loop "for symbol in symbols" of batch_analyze with its try / except around
\* analyze_stock: a symbol whose fetch gave None (ValueError) or whose analysis
\* raises is passed over.  fetched is the provider's answer for each symbol
RECURSIVE batch_analyze_loop(_, _)
batch_analyze_loop(self, fetched) ==
    IF fetched = <<>> THEN [results |-> <<>>, calculated_metrics |-> self]
    ELSE LET stock_data == Head(fetched)
         IN  IF stock_data = NoValue
             THEN batch_analyze_loop(self, Tail(fetched))
             ELSE IF metrics_raise(stock_data)
             THEN batch_analyze_loop(self, Tail(fetched))
             ELSE LET analyzed == analyze_on(self, stock_data)
                      rest == batch_analyze_loop(analyzed.calculated_metrics, Tail(fetched))
                  IN  [ results |-> <<analyze_stock_result(stock_data, analyzed.ret)>>
                                        \o rest.results,
                        calculated_metrics |-> rest.calculated_metrics ]

------------------------------------------------------------------------------
(* Inputs *)

StockData(sym, price, eps, revenue, net_income, total_assets, total_liabilities, cash, debt, market_cap, dividend_per_share, book_value_per_share, revenue_growth, earnings_growth, dividend_yield) ==
    [ symbol |-> sym, price |-> price, eps |-> eps, revenue |-> revenue,
      net_income |-> net_income, total_assets |-> total_assets,
      total_liabilities |-> total_liabilities, cash |-> cash, debt |-> debt,
      shares_outstanding |-> 10, market_cap |-> market_cap,
      dividend_per_share |-> dividend_per_share,
      book_value_per_share |-> book_value_per_share,
      revenue_growth |-> revenue_growth, earnings_growth |-> earnings_growth,
      dividend_yield |-> dividend_yield,
      pe_ratio |-> Unset, pb_ratio |-> Unset, peg_ratio |-> Unset, roe |-> Unset,
      roa |-> Unset, debt_to_equity |-> Unset, current_ratio |-> Unset,
      quick_ratio |-> Unset, debt_to_assets |-> Unset, interest_coverage |-> Unset ]

\* StockData(..., name=value): the record with one precomputed ratio supplied
with_ratio(stock, name, value) == [stock EXCEPT ![name] = value]

\* the record with every precomputed ratio supplied
with_all_ratios(stock, value) == [name \in DOMAIN stock |-> IF name \in OptionalFields THEN value ELSE stock[name]]

\* strong on every ladder: pe 6, pb 0.75, ps 0.5, roe 44.4, roa 40, margin 20,
\* current ratio 3, no debt, growth 40 / 40, yield 4
PERF == StockData("PERF", 60, 10, 200, 40, 100, 10, 30, 0, 100, 1, 80, 40, 40, 4)
\* pe exactly 10, pb 1.25, roe exactly 12, ps 3, current ratio 1.2, d/e 0.6
MIDL == StockData("MIDL", 50, 5, 100, 12, 200, 100, 120, 60, 300, 1, 40, 8, 0, 2)
\* every denominator zero or negative, growth strongly negative
LOSS == StockData("LOSS", 20, -2, 0, -30, 100, 120, 5, 50, 100, 0, 0, -50, -50, 0)
\* pe exactly 15 and pe exactly 25, otherwise alike
PE15 == StockData("PE15", 60, 4, 100, 20, 200, 100, 150, 50, 150, 0, 30, 12, 12, 0)
PE25 == StockData("PE25", 100, 4, 100, 20, 200, 100, 150, 50, 150, 0, 30, 12, 12, 0)

Universe == {PERF, MIDL, LOSS}

MaxStocks == 2

RECURSIVE SeqsUpTo(_, _)
SeqsUpTo(S, k) ==
    IF k = 0 THEN {<<>>}
    ELSE LET shorter == SeqsUpTo(S, k - 1)
         IN  shorter \cup {Append(q, x) : q \in {t \in shorter : Len(t) = k - 1}, x \in S}

StockLists == SeqsUpTo(Universe, MaxStocks)

\* strategy arguments: the six members, the value string of a member, and a name of
\* the strategy classes that is no member
StrategyArgs == ScreeningStrategy \cup {"value_investing", "GARP"}

\* thresholds: the lowest score, the default, the highest score
Thresholds == {Num(0), Num(50), Num(100)}

\* Records for the analyzer and the scorers taken alone: every combination of
\* denominators that are zero, negative or positive, of losses and profits, and of
\* growth figures far below and far above every band
Records ==
    [ symbol : {"GRID"}, price : {60}, eps : {-2, 0, 10},
      revenue : {0, 200}, net_income : {-30, 40},
      total_assets : {0, 100}, total_liabilities : {0, 10, 120},
      cash : {5, 30}, debt : {0, 50}, shares_outstanding : {10},
      market_cap : {100}, dividend_per_share : {0, 1},
      book_value_per_share : {0, 80},
      revenue_growth : {-200, 300}, earnings_growth : {-200, 0, 300},
      dividend_yield : {0, 5},
      pe_ratio : {Unset}, pb_ratio : {Unset}, peg_ratio : {Unset}, roe : {Unset},
      roa : {Unset}, debt_to_equity : {Unset}, current_ratio : {Unset},
      quick_ratio : {Unset}, debt_to_assets : {Unset}, interest_coverage : {Unset} ]

\* values a provider supplies: below and above every band of every ratio
ProviderValues == {Num(5), Num(99)}

\* Records that carry precomputed ratios: one of them, or all of them
ProviderRecords ==
    {with_ratio(stock, name, value) :
        stock \in Universe, name \in OptionalFields, value \in ProviderValues}
    \cup {with_all_ratios(stock, value) : stock \in Universe, value \in ProviderValues}

\* Records with a negative denominator where the grid has none
NegativeRecords ==
    { [PERF EXCEPT !.symbol = "NEG", !.revenue = -200],
      [PERF EXCEPT !.symbol = "NEG", !.total_assets = -100],
      [PERF EXCEPT !.symbol = "NEG", !.total_liabilities = -10],
      [PERF EXCEPT !.symbol = "NEG", !.debt = -50],
      [PERF EXCEPT !.symbol = "NEG", !.book_value_per_share = -80],
      [PERF EXCEPT !.symbol = "NEG", !.eps = -2, !.earnings_growth = 40] }

\* Records with a finite field near the largest float: a loss or a profit of a
\* tenth of it, over an equity of 1, a revenue of 1 and a debt of 1
ExtremeRecords ==
    { [PERF EXCEPT !.symbol = "XTRM", !.net_income = sign * (FloatMax \div 10),
                   !.total_liabilities = 99, !.revenue = revenue, !.debt = debt] :
        sign \in {-1, 1}, revenue \in {1, 200}, debt \in {0, 1} }

\* Records whose ratios lie on and between the breakpoints of the value scorer:
\* pe 20, 15, 12, 10, 6; pb 1.5, 1.25, 1, 0.75; price_to_sales 2, 1, 0.5; roe 10, 12
ValueEdgeRecords ==
    { [PERF EXCEPT !.symbol = "EDGE", !.total_assets = 200, !.total_liabilities = 100,
                   !.eps = eps, !.book_value_per_share = book_value_per_share,
                   !.revenue = revenue, !.net_income = net_income,
                   !.earnings_growth = earnings_growth] :
        eps \in {3, 4, 5, 6, 10}, book_value_per_share \in {40, 48, 60, 80},
        revenue \in {50, 100, 200}, net_income \in {10, 12}, earnings_growth \in {-1, 0} }

\* Records whose roe, debt_to_equity, current_ratio and revenue_growth lie on and
\* between the thresholds of the risk score and of the fundamental strength (the
\* equity is 100 and the liabilities are 100)
BandNetIncomes == {4, 5, 8, 10, 12, 15, 20}
BandDebts == {40, 50, 80, 100, 150, 200, 250}
BandCash == {90, 100, 120, 150, 200}
BandRevenueGrowths == {-11, -10, -1, 0, 1, 5, 6, 10, 11}

BandEdgeRecords ==
    { [PERF EXCEPT !.symbol = "BAND", !.total_assets = 200, !.total_liabilities = 100,
                   !.net_income = net_income, !.debt = debt, !.cash = cash,
                   !.revenue_growth = revenue_growth] :
        net_income \in BandNetIncomes, debt \in BandDebts, cash \in BandCash,
        revenue_growth \in BandRevenueGrowths }

\* the records the analyzer and the scorers are applied to
AnalyzerRecords ==
    Records \cup ProviderRecords \cup NegativeRecords \cup ExtremeRecords
        \cup ValueEdgeRecords \cup BandEdgeRecords

\* names: plain, and with an underscore and a digit
NameArgs == { <<"a">>, <<"a", "_", "1">> }

\* rule lists: empty, and three rules with the raising one in the middle
RuleListArgs == { <<>>, <<"roe_rule", "payout_rule", "debt_rule">> }

MaxStrategies == 2

\* ids a caller may pass: every id the builder can have returned, and others
StrategyIdArgs == {format_strategy_id(name, n) : name \in NameArgs, n \in 0..MaxStrategies}

\* the pe = 25 record as a provider supplies it, with ratios of its own: the
\* calculator gives pe 25, roe 20 and debt to equity 0.5
PROV == [PE25 EXCEPT !.symbol = "PROV", !.pe_ratio = Num(15), !.roe = Num(99), !.debt_to_equity = Num(5)]

\* Stocks for the criteria filter: pe exactly 15, 25, 10 and +infinity, and a
\* record with precomputed ratios
FilterUniverse == {PE15, PE25, MIDL, LOSS, PROV}

FilterStockLists == SeqsUpTo(FilterUniverse, MaxStocks)

\* a record that meets the growth criteria but for its revenue growth of 10 %:
\* pe 15, roe 20, earnings growth 20
G10 == [PE15 EXCEPT !.symbol = "G10", !.revenue_growth = 10, !.earnings_growth = 20]

\* Stocks the provider returns to screen_stocks
ScreenUniverse == {PERF, MIDL, LOSS, G10}

ScreenStockLists == SeqsUpTo(ScreenUniverse, MaxStocks)

\* the strategy argument, a strategy object or None
StrategyObjectArgs == StrategyClasses \cup {None}

\* the criteria argument: None, and a dict
ScreenCriteriaArgs == { <<>>, <<Criterion("pe_ratio", [max |-> Num(20)])>> }

\* a record as the provider builds it when the service reports no price: price is
\* None, every other field as in the profitable record
BAD == [PERF EXCEPT !.symbol = "BAD", !.price = Unset]

\* What the data service answers for a symbol; for "GONE" the request fails
Market == [PERF |-> PERF, LOSS |-> LOSS, BAD |-> BAD]

BatchSymbols == {"PERF", "LOSS", "BAD", "GONE"}

SymbolLists == SeqsUpTo(BatchSymbols, MaxStocks)

\* DataProvider.get_stock_data(symbol): the record, or None (NoValue) when the
\* request raised
get_stock_data(symbol) == IF symbol \in DOMAIN Market THEN Market[symbol] ELSE NoValue

\* the loop of get_multiple_stocks: "if stock: stocks.append(stock)"
RECURSIVE get_multiple_stocks(_)
get_multiple_stocks(symbols) ==
    IF symbols = <<>> THEN <<>>
    ELSE (IF get_stock_data(Head(symbols)) # NoValue
          THEN <<get_stock_data(Head(symbols))>> ELSE <<>>)
         \o get_multiple_stocks(Tail(symbols))

\* Criteria: a computed metric (pe_ratio, roe), a field only the record has (price),
\* and a name of the strategy classes that neither has (payout_ratio); bounds with
\* a maximum, with both, with a minimum
CriterionMetrics == {"pe_ratio", "roe", "price", "payout_ratio"}

CriterionBounds == { [max |-> Num(20)], [min |-> Num(15), max |-> Num(25)], [min |-> Num(60)] }

MaxCriteria == 2

\* the items of a criteria dict: no metric twice
CriteriaArgs ==
    { c \in SeqsUpTo([metric : CriterionMetrics, bounds : CriterionBounds], MaxCriteria) :
        \A i, j \in 1..Len(c) : i # j => c[i].metric # c[j].metric }

\* concurrent callers of create_strategy
Threads == {1, 2}

ThreadIdle == [pc |-> "idle"]

------------------------------------------------------------------------------
(* State machine *)

Init ==
    /\ custom_strategies = <<>>
    /\ pc = "idle"
    /\ call = NoValue
    /\ ret = NoValue
    /\ raised = "none"
    /\ trace = <<>>
    /\ created = <<>>
    /\ threads = [t \in Threads |-> ThreadIdle]
    /\ calculated_metrics = EmptyDict

\* In the actions the result of a loop is bound by "\E run \in {loop(...)}": the
\* loop runs once and its results, its exception and the field it leaves are read
\* from the one value.

\* ScreeningEngine.screen(stocks, strategy, threshold)
screen(stocks, strategy, threshold) ==
    /\ pc = "idle"
    /\ pc' = "done"
    /\ call' = [op |-> "screen", stocks |-> stocks, strategy |-> strategy,
                threshold |-> threshold, self |-> calculated_metrics]
    /\ LET scorer == strategies_get(strategy)
       IN  IF scorer = None
           THEN /\ raised' = "ValueError"
                /\ ret' = NoValue
                /\ trace' = <<>>
                /\ UNCHANGED calculated_metrics
           ELSE \E run \in {screen_loop(calculated_metrics, stocks, scorer, strategy,
                                        threshold)} :
                    /\ raised' = run.raised
                    /\ ret' = IF run.raised = "none"
                              THEN sorted_by_score_desc(run.results) ELSE NoValue
                    /\ trace' = AnalyzeEvents(SubSeq(stocks, 1, run.analyzed))
                    /\ calculated_metrics' = run.calculated_metrics
    /\ UNCHANGED <<custom_strategies, created, threads>>

\* StockAnalyzer.analyze(stock)
analyze_call(stock) ==
    /\ pc = "idle"
    /\ pc' = "done"
    /\ call' = [op |-> "analyze", stock |-> stock, self |-> calculated_metrics]
    /\ IF metrics_raise(stock)
       THEN /\ raised' = exception_of(stock)
            /\ ret' = NoValue
            /\ UNCHANGED calculated_metrics
       ELSE \E analyzed \in {analyze_on(calculated_metrics, stock)} :
                /\ raised' = "none"
                /\ ret' = analyzed.ret
                /\ calculated_metrics' = analyzed.calculated_metrics
    /\ trace' = <<<<"analyze", stock.symbol>>>>
    /\ UNCHANGED <<custom_strategies, created, threads>>

\* one pass of the loop of ScreeningEngine.screen up to the threshold test:
\* analysis = self.analyzer.analyze(stock); score, signals = screening_func(stock, analysis)
screening_func_call(stock, strategy) ==
    /\ pc = "idle"
    /\ pc' = "done"
    /\ call' = [op |-> "screening_func", stock |-> stock, strategy |-> strategy]
    /\ IF metrics_raise(stock)
       THEN /\ raised' = exception_of(stock)
            /\ ret' = NoValue
            /\ UNCHANGED calculated_metrics
       ELSE \E analyzed \in {analyze_on(calculated_metrics, stock)} :
                /\ raised' = "none"
                /\ ret' = screening_func(strategies_get(strategy), stock, analyzed.ret)
                /\ calculated_metrics' = analyzed.calculated_metrics
    /\ trace' = <<<<"analyze", stock.symbol>>>>
    /\ UNCHANGED <<custom_strategies, created, threads>>

\* StrategyBuilder.create_strategy(name, rules)
create_strategy(name, rules) ==
    /\ pc = "idle"
    /\ Len(created) < MaxStrategies
    /\ pc' = "done"
    /\ call' = [op |-> "create_strategy", name |-> name, rules |-> rules]
    /\ LET strategy_id == new_strategy_id(custom_strategies, name)
       IN  /\ custom_strategies' =
                 dict_set(custom_strategies, strategy_id, strategy_entry(name, rules))
           /\ ret' = strategy_id
           /\ created' = Append(created, <<name, strategy_id>>)
    /\ raised' = "none"
    /\ trace' = <<>>
    /\ UNCHANGED <<threads, calculated_metrics>>

\* a guard against the division in front of the score
score_raises_never(rules) == FALSE

\* "score = (match_count / len(strategy['rules'])) * 100" raises ZeroDivisionError
\* for a strategy without rules
score_raises(rules) == Len(rules) = 0

\* StrategyBuilder.screen_with_custom_strategy(stocks, strategy_id, threshold)
screen_with_custom_strategy(stocks, strategy_id, threshold) ==
    /\ pc = "idle"
    /\ pc' = "done"
    /\ call' = [op |-> "screen_with_custom_strategy", stocks |-> stocks,
                strategy_id |-> strategy_id, threshold |-> threshold]
    /\ LET strategy == lookup_strategy(custom_strategies, strategy_id)
       IN  IF strategy = NoValue
           THEN /\ raised' = "ValueError"
                /\ ret' = NoValue
                /\ trace' = <<>>
                /\ UNCHANGED calculated_metrics
           ELSE IF stocks # <<>> /\ score_raises(strategy.rules)
                THEN \* the first pass analyzes, runs no rule and divides by len(rules)
                     /\ ret' = NoValue
                     /\ trace' = <<<<"analyze", Head(stocks).symbol>>>>
                     /\ IF metrics_raise(Head(stocks))
                        THEN /\ raised' = exception_of(Head(stocks))
                             /\ UNCHANGED calculated_metrics
                        ELSE /\ raised' = "ZeroDivisionError"
                             /\ calculated_metrics' =
                                   analyze_on(calculated_metrics,
                                              Head(stocks)).calculated_metrics
                ELSE \E run \in {custom_loop(calculated_metrics, stocks, strategy.rules,
                                             threshold)} :
                         /\ raised' = run.raised
                         /\ ret' = IF run.raised = "none"
                                   THEN sorted_by_score_desc(run.results) ELSE NoValue
                         /\ trace' = run.events
                         /\ calculated_metrics' = run.calculated_metrics
    /\ UNCHANGED <<custom_strategies, created, threads>>

\* StrategyBuilder.get_strategy_info(strategy_id)
get_strategy_info(strategy_id) ==
    /\ pc = "idle"
    /\ pc' = "done"
    /\ call' = [op |-> "get_strategy_info", strategy_id |-> strategy_id]
    /\ LET strategy == lookup_strategy(custom_strategies, strategy_id)
       IN  IF strategy = NoValue
           THEN /\ raised' = "ValueError"
                /\ ret' = NoValue
           ELSE /\ raised' = "none"
                /\ ret' = strategy
    /\ trace' = <<>>
    /\ UNCHANGED <<custom_strategies, created, threads, calculated_metrics>>

\* StrategyBuilder.list_strategies()
list_strategies ==
    /\ pc = "idle"
    /\ pc' = "done"
    /\ call' = [op |-> "list_strategies"]
    /\ ret' = dict_keys(custom_strategies)
    /\ raised' = "none"
    /\ trace' = <<>>
    /\ UNCHANGED <<custom_strategies, created, threads, calculated_metrics>>

\* StockScreener._apply_criteria(stocks, criteria)
apply_criteria(stocks, criteria) ==
    /\ pc = "idle"
    /\ pc' = "done"
    /\ call' = [op |-> "apply_criteria", stocks |-> stocks, criteria |-> criteria]
    /\ \E run \in {filter_stocks(calculated_metrics, stocks, criteria)} :
           /\ raised' = run.raised
           /\ ret' = IF run.raised = "none" THEN run.filtered ELSE NoValue
           /\ trace' = AnalyzeEvents(SubSeq(stocks, 1, run.analyzed))
           /\ calculated_metrics' = run.calculated_metrics
    /\ UNCHANGED <<custom_strategies, created, threads>>

\* StockScreener.screen_stocks(symbols, strategy, criteria), from the list the
\* provider returned for the symbols on; the DataFrame is the sequence of its rows
screen_stocks(stocks, strategy, criteria) ==
    /\ pc = "idle"
    /\ pc' = "done"
    /\ call' = [op |-> "screen_stocks", stocks |-> stocks, strategy |-> strategy,
                criteria |-> criteria]
    /\ \E crit \in {effective_criteria(strategy, criteria)} :
       \E applied \in {IF crit # <<>>
                        THEN filter_stocks(calculated_metrics, stocks, crit)
                        ELSE [filtered |-> stocks, analyzed |-> 0, raised |-> "none",
                              calculated_metrics |-> calculated_metrics]} :
       \E filtered_stocks \in {applied.filtered} :
       \E rows \in {screen_stocks_rows(applied.calculated_metrics, filtered_stocks)} :
           IF applied.raised # "none"
           THEN \* an exception of _apply_criteria leaves screen_stocks
                /\ raised' = applied.raised
                /\ ret' = NoValue
                /\ trace' = AnalyzeEvents(SubSeq(stocks, 1, applied.analyzed))
                /\ calculated_metrics' = applied.calculated_metrics
           ELSE /\ raised' = rows.raised
                /\ ret' = IF rows.raised = "none" THEN rows.results ELSE NoValue
                /\ trace' = AnalyzeEvents(SubSeq(stocks, 1, applied.analyzed))
                               \o AnalyzeEvents(SubSeq(filtered_stocks, 1, rows.analyzed))
                /\ calculated_metrics' = rows.calculated_metrics
    /\ UNCHANGED <<custom_strategies, created, threads>>

\* DataProvider.get_multiple_stocks(symbols)
get_multiple_stocks_call(symbols) ==
    /\ pc = "idle"
    /\ pc' = "done"
    /\ call' = [op |-> "get_multiple_stocks", symbols |-> symbols]
    /\ ret' = get_multiple_stocks(symbols)
    /\ raised' = "none"
    /\ trace' = <<>>
    /\ UNCHANGED <<custom_strategies, created, threads, calculated_metrics>>

\* StockScreener.batch_analyze(symbols); the DataFrame is the sequence of its rows
batch_analyze(symbols) ==
    /\ pc = "idle"
    /\ pc' = "done"
    /\ call' = [op |-> "batch_analyze", symbols |-> symbols]
    /\ \E run \in {batch_analyze_loop(calculated_metrics,
                        [i \in 1..Len(symbols) |-> get_stock_data(symbols[i])])} :
           /\ ret' = run.results
           /\ calculated_metrics' = run.calculated_metrics
           /\ trace' = AnalyzeEvents(get_multiple_stocks(symbols))
    /\ raised' = "none"
    /\ UNCHANGED <<custom_strategies, created, threads>>

\* create_strategy called from thread t, first half: the arguments are bound and
\* strategy_id is computed from len(self.custom_strategies)
create_strategy_read(t, name, rules) ==
    /\ threads[t].pc = "idle"
    /\ Cardinality({u \in Threads : threads[u].pc # "idle"}) + Len(created) < MaxStrategies
    /\ threads' = [threads EXCEPT ![t] =
                     [pc |-> "computed", name |-> name, rules |-> rules,
                      strategy_id |-> new_strategy_id(custom_strategies, name)]]
    /\ UNCHANGED <<custom_strategies, pc, call, ret, raised, trace, created,
                   calculated_metrics>>

\* second half: the entry is stored under strategy_id and the id is returned
create_strategy_store(t) ==
    /\ threads[t].pc = "computed"
    /\ custom_strategies' =
          dict_set(custom_strategies, threads[t].strategy_id,
                   strategy_entry(threads[t].name, threads[t].rules))
    /\ created' = Append(created, <<threads[t].name, threads[t].strategy_id>>)
    /\ threads' = [threads EXCEPT ![t] = ThreadIdle]
    /\ UNCHANGED <<pc, call, ret, raised, trace, calculated_metrics>>

\* the caller takes the result; the next call starts from here, on the same objects
Return ==
    /\ pc = "done"
    /\ pc' = "idle"
    /\ call' = NoValue
    /\ ret' = NoValue
    /\ raised' = "none"
    /\ trace' = <<>>
    /\ UNCHANGED <<custom_strategies, created, threads, calculated_metrics>>

\* the caller takes the result and lets go of the object it called; the next call
\* is on one just constructed, whose calculator starts with {} (__init__)
ReturnAndDiscard ==
    /\ pc = "done"
    /\ pc' = "idle"
    /\ call' = NoValue
    /\ ret' = NoValue
    /\ raised' = "none"
    /\ trace' = <<>>
    /\ calculated_metrics' = EmptyDict
    /\ UNCHANGED <<custom_strategies, created, threads>>

\* Each action is one call by a sequential caller: it starts only when no call is
\* in progress, and draws the arguments of the call

Screen ==
    /\ pc = "idle"
    /\ \E stocks \in StockLists, strategy \in StrategyArgs, threshold \in Thresholds :
          screen(stocks, strategy, threshold)

CreateStrategy ==
    /\ pc = "idle"
    /\ \E name \in NameArgs, rules \in RuleListArgs : create_strategy(name, rules)

ScreenWithCustomStrategy ==
    /\ pc = "idle"
    /\ \E stocks \in StockLists, strategy_id \in StrategyIdArgs, threshold \in Thresholds :
          screen_with_custom_strategy(stocks, strategy_id, threshold)

GetStrategyInfo ==
    /\ pc = "idle"
    /\ \E strategy_id \in StrategyIdArgs : get_strategy_info(strategy_id)

ListStrategies ==
    /\ pc = "idle"
    /\ list_strategies

Next ==
    \/ Screen
    \/ CreateStrategy
    \/ ScreenWithCustomStrategy
    \/ GetStrategyInfo
    \/ ListStrategies
    \/ Return

Spec == Init /\ [][Next]_vars

\* The analyzer and the scorers applied to single records
Analyze ==
    /\ pc = "idle"
    /\ \E stock \in AnalyzerRecords : analyze_call(stock)

ApplyScorer ==
    /\ pc = "idle"
    /\ \E stock \in AnalyzerRecords, strategy \in ScreeningStrategy :
          screening_func_call(stock, strategy)

NextAnalyze ==
    \/ Analyze
    \/ ApplyScorer
    \/ ReturnAndDiscard

AnalyzeSpec == Init /\ [][NextAnalyze]_vars

\* The criteria filter
ApplyCriteria ==
    /\ pc = "idle"
    /\ \E stocks \in FilterStockLists, criteria \in CriteriaArgs :
          apply_criteria(stocks, criteria)

NextFilter ==
    \/ ApplyCriteria
    \/ ReturnAndDiscard

FilterSpec == Init /\ [][NextFilter]_vars

\* Screening by a strategy object or by criteria
ScreenStocks ==
    /\ pc = "idle"
    /\ \E stocks \in ScreenStockLists, strategy \in StrategyObjectArgs,
          criteria \in ScreenCriteriaArgs :
          screen_stocks(stocks, strategy, criteria)

NextScreenStocks ==
    \/ ScreenStocks
    \/ Return

ScreenStocksSpec == Init /\ [][NextScreenStocks]_vars

\* Batches with a symbol whose fetch fails and a record whose analysis raises
GetMultipleStocks ==
    /\ pc = "idle"
    /\ \E symbols \in SymbolLists : get_multiple_stocks_call(symbols)

BatchAnalyze ==
    /\ pc = "idle"
    /\ \E symbols \in SymbolLists : batch_analyze(symbols)

ScreenStocksBatch ==
    /\ pc = "idle"
    /\ \E symbols \in SymbolLists, criteria \in ScreenCriteriaArgs :
          screen_stocks(get_multiple_stocks(symbols), None, criteria)

ScreenBatch ==
    /\ pc = "idle"
    /\ \E symbols \in SymbolLists, strategy \in ScreeningStrategy :
          screen(get_multiple_stocks(symbols), strategy, Num(0))

ScreenWithCustomStrategyBatch ==
    /\ pc = "idle"
    /\ \E symbols \in SymbolLists, strategy_id \in StrategyIdArgs :
          screen_with_custom_strategy(get_multiple_stocks(symbols), strategy_id, Num(0))

NextBatch ==
    \/ GetMultipleStocks
    \/ BatchAnalyze
    \/ ScreenStocksBatch
    \/ ScreenBatch
    \/ CreateStrategy
    \/ ScreenWithCustomStrategyBatch
    \/ Return

BatchSpec == Init /\ [][NextBatch]_vars

\* One engine and its analyzer called again and again: engine.analyzer.analyze(stock)
\* and engine.screen(stocks, strategy, threshold) in any order
AnalyzeAgain ==
    /\ pc = "idle"
    /\ \E stock \in Universe : analyze_call(stock)

NextHistory ==
    \/ AnalyzeAgain
    \/ Screen
    \/ Return

HistorySpec == Init /\ [][NextHistory]_vars

\* create_strategy called from several threads on one builder: a thread switch
\* can fall between computing strategy_id and storing the entry
CreateStrategyRead ==
    \E t \in Threads, name \in NameArgs, rules \in RuleListArgs :
        create_strategy_read(t, name, rules)

CreateStrategyStore ==
    \E t \in Threads : create_strategy_store(t)

NextConc ==
    \/ CreateStrategyRead
    \/ CreateStrategyStore

ConcSpec == Init /\ [][NextConc]_vars

------------------------------------------------------------------------------
(* Claims *)

Returned(op) == pc = "done" /\ call.op = op /\ raised = "none"

ScoreNames ==
    {"risk_score", "valuation_score", "quality_score", "growth_score", "momentum_score"}

\* C1: for every record, also with denominators that are zero or negative and with
\* extreme growth figures, analyze returns risk_score, valuation_score,
\* quality_score, growth_score and momentum_score each within [0, 100].
C1_ScoresWithinRange ==
    Returned("analyze") => \A f \in ScoreNames : ret[f] \in 0..100

\* C1 witness: a record with eps <= 0, no liabilities and growth of 300 whose
\* quality bands add up to more than 100 has been analyzed
C1_Witness ==
    /\ Returned("analyze")
    /\ call.stock.eps <= 0
    /\ call.stock.total_liabilities <= 0
    /\ call.stock.revenue_growth = 300
    /\ quality_score_sum(ret.metrics) > 100
    /\ ret.quality_score = 100

\* the bands of the scorer registered for a strategy member
BandsOf(strategy, stock, analysis) ==
    CASE strategy = "VALUE_INVESTING"    -> screen_value_bands(stock, analysis)
      [] strategy = "GROWTH_INVESTING"   -> screen_growth_bands(stock, analysis)
      [] strategy = "DIVIDEND_INVESTING" -> screen_dividend_bands(stock, analysis)
      [] strategy = "MOMENTUM_INVESTING" -> screen_momentum_bands(stock, analysis)
      [] strategy = "QUALITY_INVESTING"  -> screen_quality_bands(stock, analysis)
      [] strategy = "CONTRARIAN"         -> screen_contrarian_bands(stock, analysis)

\* C2: for each of the six built-in strategy kinds and every record the scorer's
\* score is within [0, 100]: no contribution is negative, and the score is the sum
\* of the fired contributions when that is at most 100 and 100 otherwise.
C2_StrategyScoreWithinRange ==
    Returned("screening_func") =>
        LET bands == BandsOf(call.strategy, call.stock, analyze(call.stock))
            total == SumPoints(bands)
        IN  /\ ret.score \in 0..100
            /\ \A i \in 1..Len(bands) : bands[i].pts >= 0
            /\ ret.score = IF total > 100 THEN 100 ELSE total

\* C2 witness: the quality scorer has scored a record whose contributions add up
\* to 105
C2_Witness ==
    /\ Returned("screening_func")
    /\ call.strategy = "QUALITY_INVESTING"
    /\ SumPoints(screen_quality_bands(call.stock, analyze(call.stock))) = 105
    /\ ret.score = 100

Called(op) == pc = "done" /\ call.op = op

\* the number of results for a symbol with a score
CountResults(results, sym, sc) ==
    Cardinality({j \in 1..Len(results) : results[j].symbol = sym /\ Eq(results[j].score, sc)})

\* the score a built-in strategy gives the i-th stock of the call
BuiltinScore(i) ==
    Num(screening_func(strategies[call.strategy], call.stocks[i],
                       analyze(call.stocks[i])).score)

\* C3: screen(records, kind, threshold) returns exactly one result for each input
\* record whose strategy score is >= threshold (equality included) and no result
\* for any other record; so threshold 0 returns every input record and threshold
\* 100 only records whose score is exactly 100.
C3_ScreenKeepsExactlyThoseAtOrAboveThreshold ==
    Returned("screen") =>
        LET S == call.stocks
            kept == {i \in 1..Len(S) : Ge(BuiltinScore(i), call.threshold)}
        IN  /\ Len(ret) = Cardinality(kept)
            /\ \A i \in kept :
                  CountResults(ret, S[i].symbol, BuiltinScore(i))
                    = Cardinality({k \in kept : S[k] = S[i]})
            /\ (call.threshold = Num(0) => Len(ret) = Len(S))
            /\ (call.threshold = Num(100) =>
                  \A j \in 1..Len(ret) : ret[j].score = Num(100))

\* C3 witness: a screen at threshold 100 over two records has returned the one
\* whose score is exactly 100 and dropped the other
C3_Witness ==
    /\ Returned("screen")
    /\ call.threshold = Num(100)
    /\ Len(call.stocks) = 2
    /\ Len(ret) = 1
    /\ ret[1].score = Num(100)

\* C4: the sequence returned by ScreeningEngine.screen and by
\* screen_with_custom_strategy is ordered by score descending: of two adjacent
\* results the earlier one's score is >= the later one's, for any input order.
C4_ResultsSortedByScoreDescending ==
    (Returned("screen") \/ Returned("screen_with_custom_strategy")) =>
        \A j \in 1..(Len(ret) - 1) : Ge(ret[j].score, ret[j + 1].score)

\* C4 witness: a custom screen was given the lower-scoring stock first and has
\* returned both, the higher-scoring one first
C4_Witness ==
    /\ Returned("screen_with_custom_strategy")
    /\ Len(call.stocks) = 2
    /\ Len(ret) = 2
    /\ ret[1].symbol = call.stocks[2].symbol
    /\ Gt(ret[1].score, ret[2].score)

\* C5: screen called with a strategy kind that is not one of the six registered
\* kinds fails with an error before any record is analyzed and returns nothing
\* (no default scorer); called with one of the six members it never fails with
\* the unknown-strategy error.
C5_UnknownStrategyKindFails ==
    Called("screen") =>
        IF call.strategy \in ScreeningStrategy
        THEN raised = "none"
        ELSE raised = "ValueError" /\ trace = <<>> /\ ret = NoValue

\* C5 witness: screen was called with the string "value_investing", no member of
\* the enumeration, on a non-empty list, and has raised
C5_Witness ==
    /\ Called("screen")
    /\ call.strategy = "value_investing"
    /\ call.stocks # <<>>
    /\ raised = "ValueError"

\* the ids create_strategy has returned on this builder
ReturnedIds == {created[k][2] : k \in 1..Len(created)}

\* C6: screen_with_custom_strategy and get_strategy_info called with an id that
\* create_strategy never returned on that builder fail with an error, evaluate no
\* rule on any stock, return no results and leave the registry unchanged.
C6_UnknownStrategyIdFails ==
    [][ ( /\ pc = "idle"
          /\ pc' = "done"
          /\ call'.op \in {"screen_with_custom_strategy", "get_strategy_info"}
          /\ call'.strategy_id \notin ReturnedIds )
        => ( /\ raised' = "ValueError"
             /\ trace' = <<>>
             /\ ret' = NoValue
             /\ custom_strategies' = custom_strategies ) ]_vars

\* C6 witness: with a strategy registered, a custom screen of a non-empty list was
\* called with an id never returned, and has raised
C6_Witness ==
    /\ Called("screen_with_custom_strategy")
    /\ call.strategy_id \notin ReturnedIds
    /\ call.stocks # <<>>
    /\ custom_strategies # <<>>
    /\ raised = "ValueError"
    /\ trace = <<>>

\* the rules registered under the id of the call
CalledRules == dict_get(custom_strategies, call.strategy_id).rules

\* the number of rules of the call that return true on its i-th stock
TrueCount(i) ==
    Cardinality({k \in 1..Len(CalledRules) :
        rule_call(CalledRules[k], call.stocks[i], analyze(call.stocks[i])) = "true"})

\* 100 * (number of rules returning true) / n for the i-th stock of the call
CustomScore(i) == Rat(100 * TrueCount(i), Len(CalledRules))

\* C7: for a registered custom strategy with n >= 1 rules and any stock, the score
\* is 100 * (number of rules that return true without raising) / n; a rule that
\* raises counts as not matched, the error is not propagated, and the remaining
\* rules of that stock and all remaining stocks are still evaluated.
C7_CustomScoreIsShareOfTrueRules ==
    ( /\ Called("screen_with_custom_strategy")
      /\ dict_has(custom_strategies, call.strategy_id)
      /\ Len(CalledRules) >= 1 ) =>
        LET S == call.stocks
            n == Len(CalledRules)
            kept == {i \in 1..Len(S) : Ge(CustomScore(i), call.threshold)}
        IN  /\ raised = "none"
            /\ Len(ret) = Cardinality(kept)
            /\ \A i \in kept :
                  CountResults(ret, S[i].symbol, CustomScore(i))
                    = Cardinality({k \in kept : S[k] = S[i]})
            /\ Len(trace) = Len(S) * (n + 1)
            /\ \A i \in 1..Len(S), k \in 1..n :
                  trace[(i - 1) * (n + 1) + 1 + k]
                    = <<"rule", k - 1, S[i].symbol,
                        rule_call(CalledRules[k], S[i], analyze(S[i]))>>

\* C7 witness: three rules, the second raising and the other two true on the first
\* of two stocks: its score is 200/3, and the rule after the raising one and the
\* second stock were evaluated
C7_Witness ==
    /\ Returned("screen_with_custom_strategy")
    /\ Len(call.stocks) = 2
    /\ Len(CalledRules) = 3
    /\ trace[3][4] = "raise"
    /\ trace[4][4] = "true"
    /\ Len(trace) = 8
    /\ \E j \in 1..Len(ret) :
          ret[j].symbol = call.stocks[1].symbol /\ Eq(ret[j].score, Rat(200, 3))

\* "custom_<name>_<k>" for k < 10
ExpectedId(name, k) ==
    <<"c", "u", "s", "t", "o", "m", "_">> \o name \o <<"_">>
      \o << <<"0", "1", "2", "3", "4", "5", "6", "7", "8", "9">>[k + 1] >>

\* C8: after any sequence of create_strategy calls on one builder, the k-th call
\* (counting from 0) returned the id custom_<name>_<k>, all returned ids are
\* pairwise distinct (also when names repeat or contain underscores and digits),
\* the registry holds exactly one entry per call, and list_strategies returns all
\* ids in creation order.
C8_IdsAreDistinctAndOrdered ==
    /\ \A k \in 1..Len(created) : created[k][2] = ExpectedId(created[k][1], k - 1)
    /\ \A j, k \in 1..Len(created) : j # k => created[j][2] # created[k][2]
    /\ Len(custom_strategies) = Len(created)
    /\ \A k \in 1..Len(created) :
          /\ custom_strategies[k].id = created[k][2]
          /\ custom_strategies[k].value.name = created[k][1]
    /\ (Called("list_strategies") =>
          /\ raised = "none"
          /\ ret = [k \in 1..Len(created) |-> created[k][2]])

\* C8 witness: list_strategies has returned after two creations under the same
\* name, a name with an underscore and a digit
C8_Witness ==
    /\ Returned("list_strategies")
    /\ Len(created) = 2
    /\ created[1][1] = <<"a", "_", "1">>
    /\ created[2][1] = <<"a", "_", "1">>
    /\ Len(ret) = 2

\* C9: under every interleaving of concurrent create_strategy calls on the same
\* builder, the calls return distinct ids and every strategy is present in the
\* registry afterwards (no registration is lost or overwritten).
C9_ConcurrentRegistrationsAreKept ==
    (\A t \in Threads : threads[t].pc = "idle") =>
        /\ \A j, k \in 1..Len(created) : j # k => created[j][2] # created[k][2]
        /\ Len(custom_strategies) = Len(created)
        /\ \A k \in 1..Len(created) : dict_has(custom_strategies, created[k][2])

\* whether the criteria keep a stock, read off the claim: every criterion whose
\* name is a computed metric or a field of the record holds, bounds inclusive
CriteriaKeep(stock, criteria) ==
    \A i \in 1..Len(criteria) :
        LET name == criteria[i].metric
            bounds == criteria[i].bounds
            metrics == calculate_all_metrics(stock)
            value == IF name \in DOMAIN metrics THEN metrics[name] ELSE Num(stock[name])
        IN  (name \in DOMAIN metrics \/ name \in DOMAIN stock) =>
                /\ ("min" \in DOMAIN bounds => Ge(value, bounds.min))
                /\ ("max" \in DOMAIN bounds => Le(value, bounds.max))

RECURSIVE KeptInOrder(_, _)
KeptInOrder(stocks, criteria) ==
    IF stocks = <<>> THEN <<>>
    ELSE (IF CriteriaKeep(Head(stocks), criteria) THEN <<Head(stocks)>> ELSE <<>>)
         \o KeptInOrder(Tail(stocks), criteria)

\* C10: the criteria filter keeps a record if and only if, for every criterion
\* whose metric resolves to a value, the value is >= the 'min' bound when one is
\* given and <= the 'max' bound when one is given (bounds inclusive, each applied
\* independently); the kept records are a sub-sequence of the input in input order.
C10_CriteriaFilterKeepsExactlyThoseWithinBounds ==
    Called("apply_criteria") =>
        /\ raised = "none"
        /\ ret = KeptInOrder(call.stocks, call.criteria)

\* C10 witness: {'pe_ratio': {'max': 20}} against pe = 15 and pe = 25 has kept only
\* the pe = 15 stock
C10_Witness ==
    /\ Returned("apply_criteria")
    /\ call.criteria = <<[metric |-> "pe_ratio", bounds |-> [max |-> Num(20)]]>>
    /\ call.stocks = <<PE15, PE25>>
    /\ ret = <<PE15>>

\* the names of the metrics map, and the fields of the record
MetricNames ==
    {"pe_ratio", "pb_ratio", "peg_ratio", "price_to_sales", "roe", "roa", "net_margin",
     "gross_margin", "operating_margin", "roic", "asset_turnover", "equity_multiplier",
     "current_ratio", "quick_ratio", "cash_ratio", "debt_to_equity", "debt_to_assets",
     "equity_ratio", "interest_coverage", "revenue_growth", "earnings_growth",
     "dividend_yield", "eps", "book_value_per_share", "dividend_per_share"}

FieldNames ==
    {"symbol", "price", "eps", "revenue", "net_income", "total_assets",
     "total_liabilities", "cash", "debt", "shares_outstanding", "market_cap",
     "dividend_per_share", "book_value_per_share", "revenue_growth", "earnings_growth",
     "dividend_yield"} \cup OptionalFields

RemoveAt(seq, i) == SubSeq(seq, 1, i - 1) \o SubSeq(seq, i + 1, Len(seq))

WithinBounds(value, bounds) ==
    /\ ("min" \in DOMAIN bounds => Ge(value, bounds.min))
    /\ ("max" \in DOMAIN bounds => Le(value, bounds.max))

\* C12: the filter resolves a criterion name first in the computed metrics map and
\* only when it is absent there in the record's own field: a criterion on a metric
\* name is checked against the calculator's value, also when the record carries a
\* different provider-supplied value in the field of that name, and a criterion on
\* a name only the record has is checked against the field.
C12_CriteriaResolveComputedMetricsFirst ==
    Called("apply_criteria") =>
        /\ raised = "none"
        /\ \A i \in 1..Len(call.stocks) :
              LET stock == call.stocks[i]
                  computed == calculate_all_metrics(stock)
              IN  (\E k \in 1..Len(ret) : ret[k] = stock) <=>
                      \A j \in 1..Len(call.criteria) :
                          LET name == call.criteria[j].metric
                              bounds == call.criteria[j].bounds
                          IN  IF name \in MetricNames
                              THEN WithinBounds(computed[name], bounds)
                              ELSE (name \in FieldNames =>
                                       WithinBounds(Num(stock[name]), bounds))

\* C12 witness: {'pe_ratio': {'max': 20}} has dropped the record whose calculator
\* gives pe = 25 and whose provider-supplied pe_ratio field is 15, and
\* {'price': ...} has been checked against the record's field
C12_Witness ==
    /\ Returned("apply_criteria")
    /\ call.criteria = << [metric |-> "pe_ratio", bounds |-> [max |-> Num(20)]],
                          [metric |-> "price", bounds |-> [min |-> Num(60)]] >>
    /\ call.stocks = <<PROV, PE15>>
    /\ PROV.pe_ratio = Num(15)
    /\ ret = <<PE15>>

\* equality of two floats: of fractions by value, of infinities by sign
SameFloat(a, b) == IF a.d = 0 \/ b.d = 0 THEN a = b ELSE Eq(a, b)

\* one row of the table of guarded metrics: the fallback when the denominator is
\* zero or negative, the float quotient otherwise
TableRow(num, den, fallback) == IF den <= 0 THEN fallback ELSE Float(num, den)

\* the table of guarded metrics, row by row
GuardTable(stock) ==
    LET equity == stock.total_assets - stock.total_liabilities
        liquidity == TableRow(stock.cash, stock.total_liabilities, Inf)
        margin == TableRow(stock.net_income * 100, stock.revenue, Num(0))
    IN  [ pe_ratio          |-> TableRow(stock.price, stock.eps, Inf),
          pb_ratio          |-> TableRow(stock.price, stock.book_value_per_share, Inf),
          peg_ratio         |-> IF stock.earnings_growth <= 0 \/ stock.eps <= 0 THEN Inf
                                ELSE Float(stock.price, stock.eps * stock.earnings_growth),
          price_to_sales    |-> TableRow(stock.market_cap, stock.revenue, Inf),
          roe               |-> TableRow(stock.net_income * 100, equity, Num(0)),
          roa               |-> TableRow(stock.net_income * 100, stock.total_assets, Num(0)),
          net_margin        |-> margin,
          gross_margin      |-> margin,
          operating_margin  |-> margin,
          roic              |-> TableRow(stock.net_income * 100,
                                         stock.total_assets - (stock.total_assets
                                            - stock.total_liabilities - stock.cash),
                                         Num(0)),
          asset_turnover    |-> TableRow(stock.revenue, stock.total_assets, Num(0)),
          equity_multiplier |-> TableRow(stock.total_assets, equity, Num(0)),
          current_ratio     |-> liquidity,
          quick_ratio       |-> liquidity,
          cash_ratio        |-> liquidity,
          debt_to_equity    |-> TableRow(stock.debt, equity, Inf),
          debt_to_assets    |-> TableRow(stock.debt, stock.total_assets, Num(0)),
          equity_ratio      |-> TableRow(equity * 100, stock.total_assets, Num(0)),
          interest_coverage |-> TableRow(stock.net_income * 20, stock.debt, Inf) ]

\* C13: for every guarded metric a denominator that is zero or negative yields the
\* table's fallback (+infinity for pe_ratio, pb_ratio, peg_ratio, price_to_sales,
\* current_ratio, quick_ratio, cash_ratio, debt_to_equity and interest_coverage; 0
\* for roe, roa, the three margins, roic, asset_turnover, equity_multiplier,
\* debt_to_assets and equity_ratio), and a strictly positive denominator yields the
\* table's formula.
C13_GuardedMetricsFollowTheTable ==
    Called("analyze") =>
        /\ raised = "none"
        /\ \A name \in DOMAIN GuardTable(call.stock) :
              SameFloat(ret.metrics[name], GuardTable(call.stock)[name])

\* C13 witness: a record with debt = 0 and with every other denominator zero or
\* negative has been analyzed: interest_coverage and pe_ratio are +infinity, roe
\* and roa are 0
C13_Witness ==
    /\ Returned("analyze")
    /\ call.stock.debt = 0
    /\ call.stock.eps <= 0
    /\ call.stock.total_assets - call.stock.total_liabilities < 0
    /\ call.stock.total_assets = 0
    /\ call.stock.revenue = 0
    /\ ret.metrics.interest_coverage = Inf
    /\ ret.metrics.pe_ratio = Inf
    /\ ret.metrics.roe = Num(0)
    /\ ret.metrics.roa = Num(0)

\* the fields calculate_all_metrics copies from the record
PassThroughNames ==
    {"revenue_growth", "earnings_growth", "dividend_yield", "eps",
     "book_value_per_share", "dividend_per_share"}

\* C14: calculate_all_metrics is total: for every record whose required fields are
\* numbers of any sign, zero included, it returns without raising, and the map it
\* returns has exactly the same 25 names: 19 ratios and the 6 pass-through fields,
\* copied unchanged from the record.
C14_CalculateAllMetricsIsTotal ==
    Called("analyze") =>
        /\ raised = "none"
        /\ DOMAIN ret.metrics = MetricNames
        /\ Cardinality(DOMAIN ret.metrics) = 25
        /\ Cardinality(DOMAIN ret.metrics \ PassThroughNames) = 19
        /\ \A name \in PassThroughNames : ret.metrics[name] = Num(call.stock[name])

\* C14 witness: a record in which every denominator is exactly zero has been
\* analyzed, and its metrics are there
C14_Witness ==
    /\ Returned("analyze")
    /\ call.stock.eps = 0
    /\ call.stock.book_value_per_share = 0
    /\ call.stock.earnings_growth = 0
    /\ call.stock.revenue = 0
    /\ call.stock.total_assets = 0
    /\ call.stock.total_liabilities = 0
    /\ call.stock.debt = 0
    /\ DOMAIN ret.metrics = MetricNames

\* the elements of a sequence
Range(seq) == {seq[i] : i \in 1..Len(seq)}

\* C15 (the claim as stated): for every record with finite numeric fields, every
\* value of the metrics map is a finite number or +infinity; none is NaN or
\* -infinity.
C15_MetricsAreFiniteOrPlusInfinity ==
    Returned("analyze") =>
        \A name \in DOMAIN ret.metrics : IsNumber(ret.metrics[name])

\* C16: for every record with eps <= 0 the pe_ratio metric is +infinity and the
\* analyzer's signals never hold UNDERVALUED_PE; the value scorer awards no P/E
\* points (its score is what its other four ladders give) and neither VERY_LOW_PE
\* nor LOW_PE.
C16_NoEarningsNoLowPE ==
    /\ (Called("analyze") /\ call.stock.eps <= 0) =>
           /\ raised = "none"
           /\ ret.metrics.pe_ratio = Inf
           /\ "UNDERVALUED_PE" \notin Range(ret.signals)
    /\ (Called("screening_func") /\ call.strategy = "VALUE_INVESTING"
           /\ call.stock.eps <= 0) =>
           /\ raised = "none"
           /\ {"VERY_LOW_PE", "LOW_PE"} \cap Range(ret.signals) = {}
           /\ ret.score =
                 SumPoints(Tail(screen_value_bands(call.stock, analyze(call.stock))))

\* C16 witness: the value scorer has scored a record with negative eps whose other
\* four ladders all fire: 25 + 15 + 20 + 10
C16_Witness ==
    /\ Returned("screening_func")
    /\ call.strategy = "VALUE_INVESTING"
    /\ call.stock.eps < 0
    /\ ret.score = 70
    /\ ret.signals = <<"LOW_PB", "LOW_PS", "DECENT_ROE">>

\* the metrics whose fallback is +infinity and that bands read, and whether the
\* guard of one fired for a record
SentinelMetrics ==
    {"pe_ratio", "pb_ratio", "peg_ratio", "price_to_sales", "debt_to_equity",
     "current_ratio"}

GuardFired(stock, name) ==
    CASE name = "pe_ratio"       -> stock.eps <= 0
      [] name = "pb_ratio"       -> stock.book_value_per_share <= 0
      [] name = "peg_ratio"      -> stock.earnings_growth <= 0
      [] name = "price_to_sales" -> stock.revenue <= 0
      [] name = "debt_to_equity" -> stock.total_assets - stock.total_liabilities <= 0
      [] name = "current_ratio"  -> stock.total_liabilities <= 0

\* finite values of a metric, one in every band of every ladder
ProbeValues ==
    {Num(0), Rat(1, 4), Rat(3, 4), Rat(5, 4), Rat(7, 4), Rat(9, 4), Num(5), Num(9),
     Num(11), Num(14), Num(17), Num(25), Num(40), Num(1000)}

\* the favourable tags of the signal rules that read those metrics
FavourableSignals == {"UNDERVALUED_PE", "UNDERVALUED_BOOK", "STRONG_LIQUIDITY", "LOW_DEBT"}

\* For the metrics named: when the metric is +infinity because its denominator is
\* not positive, no finite value of the metric would give a lower score, a lower
\* strength or a higher risk, from the analyzer or from a strategy scorer, and no
\* favourable signal of the metric fires.
InfinityIsWorstCaseFor(names) ==
    /\ Returned("analyze") =>
          \A name \in names :
              (GuardFired(call.stock, name) /\ ret.metrics[name] = Inf) =>
                  /\ \A v \in ProbeValues :
                        LET other == [ret.metrics EXCEPT ![name] = v]
                        IN  /\ ret.valuation_score <= calculate_valuation_score(other)
                            /\ ret.quality_score <= calculate_quality_score(other)
                            /\ ret.growth_score <= calculate_growth_score(call.stock, other)
                            /\ strength_score(call.stock, ret.metrics)
                                  <= strength_score(call.stock, other)
                            /\ ret.risk_score >= calculate_risk_score(call.stock, other)
                  /\ Range(ret.signals) \cap FavourableSignals
                        \subseteq Range(generate_signals(call.stock,
                                           [ret.metrics EXCEPT ![name] = Num(1000)]))
    /\ Returned("screening_func") =>
          LET analysis == analyze(call.stock)
          IN  \A name \in names :
                  (GuardFired(call.stock, name) /\ analysis.metrics[name] = Inf) =>
                      \A v \in ProbeValues :
                          LET other == [analysis EXCEPT !.metrics[name] = v]
                          IN  ret.score <= screening_func(strategies_get(call.strategy),
                                                          call.stock, other).score

\* C17 (the claim as stated): whenever a metric is +infinity because its
\* denominator is non-positive, every scoring band, risk band, strength band and
\* signal rule that reads it takes its worst-case (lowest-score, highest-risk)
\* branch for that metric; for each of pe_ratio, pb_ratio, peg_ratio,
\* price_to_sales, debt_to_equity and current_ratio.
C17_InfinityTakesTheWorstCaseBranch == InfinityIsWorstCaseFor(SentinelMetrics)

\* C18 (the claim as stated): when a record carries a provider-supplied
\* precomputed ratio, the metrics of the analysis result report the provider's
\* value under that name, not a recomputed one.
C18_ProviderRatiosAreReported ==
    Returned("analyze") =>
        \A name \in OptionalFields :
            call.stock[name] # Unset => SameFloat(ret.metrics[name], call.stock[name])

\* the record without its precomputed ratios
WithoutRatios(stock) ==
    [name \in DOMAIN stock |-> IF name \in OptionalFields THEN Unset ELSE stock[name]]

\* C19: scoring does not depend on the optional precomputed ratios: a record gets
\* the signals, risk score, strength label and four sub-scores, and from each of
\* the six strategy scorers the score and signals, that the record with the same
\* required fields and no precomputed ratio gets.
C19_ScoringIgnoresProviderRatios ==
    /\ Called("analyze") =>
          /\ raised = "none"
          /\ LET base == analyze(WithoutRatios(call.stock))
              IN  /\ ret.signals = base.signals
                  /\ ret.risk_score = base.risk_score
                  /\ ret.fundamental_strength = base.fundamental_strength
                  /\ ret.valuation_score = base.valuation_score
                  /\ ret.quality_score = base.quality_score
                  /\ ret.growth_score = base.growth_score
                  /\ ret.momentum_score = base.momentum_score
    /\ Called("screening_func") =>
          /\ raised = "none"
          /\ LET base == WithoutRatios(call.stock)
              IN  ret = screening_func(strategies_get(call.strategy), base, analyze(base))

\* C19 witness: the quality scorer has scored a record whose provider-supplied
\* ratios are all 5 and whose calculator gives roe 44.4: EXCELLENT_ROE is there
C19_Witness ==
    /\ Returned("screening_func")
    /\ call.strategy = "QUALITY_INVESTING"
    /\ call.stock = with_all_ratios(PERF, Num(5))
    /\ "EXCELLENT_ROE" \in Range(ret.signals)

\* the metrics and fields given in percentage points
PercentageNames == {"roe", "roa", "revenue_growth", "earnings_growth", "dividend_yield"}

\* C20 (the claim as stated): every consumer reads roe, roa, revenue_growth,
\* earnings_growth and dividend_yield in percentage points: screening through the
\* criteria filter with a strategy class's default criteria keeps a record only if
\* it meets the documented percentage: each minimum the class gives for one of
\* these names (0.15 for 15 %) is met by the record's value in percentage points
\* (GrowthStrategy keeps only records with revenue growth and earnings growth of
\* at least 15, so a record with revenue_growth = 10 is excluded).
C20_StrategyCriteriaReadPercentagePoints ==
    (Returned("screen_stocks") /\ call.strategy \in StrategyClasses) =>
        \A i \in 1..Len(ret) :
            LET k == CHOOSE k \in 1..Len(call.stocks) : call.stocks[k].symbol = ret[i].symbol
                metrics == calculate_all_metrics(call.stocks[k])
                criteria == default_criteria[call.strategy]
            IN  \A j \in 1..Len(criteria) :
                    (criteria[j].metric \in PercentageNames
                       /\ "min" \in DOMAIN criteria[j].bounds) =>
                        Ge(metrics[criteria[j].metric],
                           Rat(criteria[j].bounds.min.n * 100, criteria[j].bounds.min.d))

\* the results ScreeningEngine.screen appends when every record is analyzed by an
\* analyzer just constructed
RECURSIVE FreshResults(_, _, _)
FreshResults(stocks, strategy, threshold) ==
    IF stocks = <<>> THEN <<>>
    ELSE LET stock == Head(stocks)
             analysis == analyze(stock)
             scored == screening_func(strategies[strategy], stock, analysis)
         IN  (IF Ge(Num(scored.score), threshold)
              THEN <<ScreeningResult(stock.symbol, Num(scored.score), strategy,
                                     analysis.metrics, scored.signals)>>
              ELSE <<>>) \o FreshResults(Tail(stocks), strategy, threshold)

\* C21: analyze is deterministic and history-independent: after any sequence of
\* earlier analyze and screen calls on the same analyzer or engine, on any records,
\* analyze(r) returns the metrics, signals (in order), scores and strength label
\* of a first call on a fresh analyzer, and screen returns the same symbols,
\* scores and signals (timestamps left out).
C21_AnalyzeIsHistoryIndependent ==
    /\ Returned("analyze") => ret = analyze(call.stock)
    /\ Returned("screen") =>
          ret = sorted_by_score_desc(
                   FreshResults(call.stocks, call.strategy, call.threshold))

\* C21 witness: an analyzer whose calculator still holds the metrics of the
\* loss-making record has analyzed the profitable one
C21_Witness ==
    /\ Returned("analyze")
    /\ call.stock = PERF
    /\ call.self = calculate_all_metrics(LOSS)
    /\ ret.signals # analyze(LOSS).signals
    /\ ret.metrics # call.self

BatchOperations ==
    {"get_multiple_stocks", "batch_analyze", "screen_stocks", "screen",
     "screen_with_custom_strategy"}

\* the symbols of a batch whose fetch succeeds, and of those the records whose
\* analysis does not raise
Fetchable(symbols) == SelectSeq(symbols, LAMBDA symbol : symbol \in DOMAIN Market)
Analyzable(stocks) == SelectSeq(stocks, LAMBDA stock : ~metrics_raise(stock))

\* what screen_stocks returns for a list when every record is analyzed by an
\* analyzer just constructed
FreshRows(stocks, criteria) ==
    LET kept == SelectSeq(stocks, LAMBDA stock :
                    criteria_pass(stock, analyze(stock).metrics, criteria))
    IN  [i \in 1..Len(kept) |-> screen_stocks_row(kept[i], analyze(kept[i]))]

\* what screen_with_custom_strategy appends for a list, every record analyzed by
\* an analyzer just constructed
RECURSIVE FreshCustomResults(_, _, _)
FreshCustomResults(stocks, rules, threshold) ==
    IF stocks = <<>> THEN <<>>
    ELSE LET stock == Head(stocks)
             analysis == analyze(stock)
             outcomes == rule_outcomes(rules, stock, analysis)
         IN  (IF Ge(custom_score(outcomes), threshold)
              THEN <<ScreeningResult(stock.symbol, custom_score(outcomes), "VALUE_INVESTING",
                                     analysis.metrics, matching_signals(outcomes))>>
              ELSE <<>>) \o FreshCustomResults(Tail(stocks), rules, threshold)

\* the batch operations among ops complete and return what they return for the
\* batch without the failing symbols
BatchToleratesFailure(ops) ==
    /\ ("get_multiple_stocks" \in ops /\ Called("get_multiple_stocks")) =>
          /\ raised = "none"
          /\ ret = LET good == Fetchable(call.symbols)
                   IN  [i \in 1..Len(good) |-> Market[good[i]]]
    /\ ("batch_analyze" \in ops /\ Called("batch_analyze")) =>
          /\ raised = "none"
          /\ ret = LET good == Fetchable(call.symbols)
                       stocks == Analyzable([i \in 1..Len(good) |-> Market[good[i]]])
                   IN  [i \in 1..Len(stocks) |->
                           analyze_stock_result(stocks[i], analyze(stocks[i]))]
    /\ ("screen_stocks" \in ops /\ Called("screen_stocks")) =>
          /\ raised = "none"
          /\ ret = FreshRows(Analyzable(call.stocks),
                             effective_criteria(call.strategy, call.criteria))
    /\ ("screen" \in ops /\ Called("screen") /\ call.strategy \in ScreeningStrategy) =>
          /\ raised = "none"
          /\ ret = sorted_by_score_desc(
                      FreshResults(Analyzable(call.stocks), call.strategy, call.threshold))
    /\ ( /\ "screen_with_custom_strategy" \in ops
         /\ Called("screen_with_custom_strategy")
         /\ dict_has(custom_strategies, call.strategy_id)
         /\ Len(dict_get(custom_strategies, call.strategy_id).rules) > 0 ) =>
          /\ raised = "none"
          /\ ret = sorted_by_score_desc(
                      FreshCustomResults(Analyzable(call.stocks),
                          dict_get(custom_strategies, call.strategy_id).rules,
                          call.threshold))

\* C22: the batch operations (get_multiple_stocks, batch_analyze, screen_stocks,
\* ScreeningEngine.screen, screen_with_custom_strategy) are partial-failure
\* tolerant: when fetching or analyzing one symbol fails the batch still completes,
\* every other symbol is processed and returned as if the failing one were absent,
\* and the failing symbol is left out of the result.
C22_BatchesTolerateAFailingSymbol == BatchToleratesFailure(BatchOperations)

\* the fetch and the per-symbol analysis of the screener are tolerant
BatchFetchAndAnalyzeTolerate ==
    BatchToleratesFailure({"get_multiple_stocks", "batch_analyze"})

\* The tags of _generate_signals in the order of its rules: valuation (P/E, P/B),
\* profitability, growth, dividend, liquidity, debt
SignalRuleOrder ==
    << "UNDERVALUED_PE", "OVERVALUED_PE", "UNDERVALUED_BOOK", "OVERVALUED_BOOK",
       "HIGH_ROE", "HIGH_ROA", "HIGH_MARGIN",
       "HIGH_REVENUE_GROWTH", "HIGH_EARNINGS_GROWTH",
       "HIGH_DIVIDEND_YIELD", "PAYS_DIVIDEND",
       "STRONG_LIQUIDITY", "WEAK_LIQUIDITY",
       "LOW_DEBT", "HIGH_DEBT" >>

ExclusivePairs ==
    { {"UNDERVALUED_PE", "OVERVALUED_PE"}, {"UNDERVALUED_BOOK", "OVERVALUED_BOOK"},
      {"HIGH_DIVIDEND_YIELD", "PAYS_DIVIDEND"}, {"STRONG_LIQUIDITY", "WEAK_LIQUIDITY"},
      {"LOW_DEBT", "HIGH_DEBT"} }

Tags(signals) == {signals[i] : i \in 1..Len(signals)}

NoTagTwice(signals) ==
    \A i, j \in 1..Len(signals) : signals[i] = signals[j] => i = j

RulePosition(tag) == CHOOSE k \in 1..Len(SignalRuleOrder) : SignalRuleOrder[k] = tag

InRuleOrder(signals) ==
    /\ Tags(signals) \subseteq Tags(SignalRuleOrder)
    /\ \A i \in 1..Len(signals) - 1 :
          RulePosition(signals[i]) < RulePosition(signals[i + 1])

\* C23: the analyzer's signal list holds no tag twice, follows the fixed rule order
\* (valuation, profitability, growth, dividend, liquidity, debt) and never holds
\* both members of an exclusive pair; the signal list of each of the six strategy
\* scorers holds no tag twice.
C23_SignalListsAreOrderedSets ==
    /\ Returned("analyze") =>
          /\ NoTagTwice(ret.signals)
          /\ InRuleOrder(ret.signals)
          /\ \A pair \in ExclusivePairs : ~(pair \subseteq Tags(ret.signals))
    /\ Returned("screening_func") => NoTagTwice(ret.signals)

C23_Witness ==
    /\ Returned("analyze")
    /\ {"UNDERVALUED_PE", "HIGH_ROE", "HIGH_REVENUE_GROWTH", "HIGH_DIVIDEND_YIELD",
        "STRONG_LIQUIDITY", "LOW_DEBT"} \subseteq Tags(ret.signals)
    /\ call.stock.dividend_yield > 3

\* The table of the value scorer: the points of the P/E, P/B and P/S ladders and of
\* the two bonuses, and the tags of the bands that fire
ValueTable(pe, pb, ps, roe, earnings_growth) ==
    [ pe_points |-> IF Lt(pe, Num(10)) THEN 30 ELSE IF Lt(pe, Num(15)) THEN 20
                    ELSE IF Lt(pe, Num(20)) THEN 10 ELSE 0,
      pb_points |-> IF Lt(pb, Num(1)) THEN 25 ELSE IF Lt(pb, Rat(3, 2)) THEN 15 ELSE 0,
      ps_points |-> IF Lt(ps, Num(1)) THEN 15 ELSE IF Lt(ps, Num(2)) THEN 10 ELSE 0,
      roe_bonus |-> IF Gt(roe, Num(10)) THEN 20 ELSE 0,
      earnings_bonus |-> IF earnings_growth >= 0 THEN 10 ELSE 0,
      tags |-> Tag(Lt(pe, Num(10)), "VERY_LOW_PE")
               \o Tag(~Lt(pe, Num(10)) /\ Lt(pe, Num(15)), "LOW_PE")
               \o Tag(Lt(pb, Num(1)), "LOW_PB")
               \o Tag(Lt(ps, Num(1)), "LOW_PS")
               \o Tag(Gt(roe, Num(10)), "DECENT_ROE") ]

\* C24: the value scorer's score is min(100, P/E ladder + P/B ladder + P/S ladder +
\* ROE bonus + earnings bonus) with strict breakpoints, and its signals are those
\* the fired bands name; for pe = 10, pb = 1.25, roe = 12 the P/E band gives +20
\* with LOW_PE (not VERY_LOW_PE), the P/B band +15 without LOW_PB, and the ROE
\* bonus +20 with DECENT_ROE.
C24_ValueScoreIsTheSumOfItsLadders ==
    (Returned("screening_func") /\ call.strategy = "VALUE_INVESTING") =>
        LET metrics == calculate_all_metrics(call.stock)
            table == ValueTable(metrics.pe_ratio, metrics.pb_ratio, metrics.price_to_sales,
                                metrics.roe, call.stock.earnings_growth)
            sum == table.pe_points + table.pb_points + table.ps_points
                      + table.roe_bonus + table.earnings_bonus
        IN  /\ ret.score = Min(100, sum)
            /\ ret.signals = table.tags
            /\ ( /\ Eq(metrics.pe_ratio, Num(10))
                 /\ Eq(metrics.pb_ratio, Rat(5, 4))
                 /\ Eq(metrics.roe, Num(12)) ) =>
                  /\ table.pe_points = 20 /\ table.pb_points = 15 /\ table.roe_bonus = 20
                  /\ ret.score = 55 + table.ps_points + table.earnings_bonus
                  /\ Tags(ret.signals) \cap {"VERY_LOW_PE", "LOW_PE", "LOW_PB", "DECENT_ROE"}
                        = {"LOW_PE", "DECENT_ROE"}

C24_Witness ==
    /\ Returned("screening_func")
    /\ call.strategy = "VALUE_INVESTING"
    /\ Eq(calculate_pe_ratio(call.stock), Num(10))
    /\ Eq(calculate_pb_ratio(call.stock), Rat(5, 4))
    /\ Eq(calculate_roe(call.stock), Num(12))
    /\ ret.signals = <<"LOW_PE", "LOW_PS", "DECENT_ROE">>
    /\ ret.score = 80

\* The table of the risk score: the contributions of the liquidity, debt,
\* profitability and growth bands
RiskTable(current_ratio, debt_to_equity, roe, revenue_growth) ==
    [ liquidity |-> IF Lt(current_ratio, Num(1)) THEN 25
                    ELSE IF Lt(current_ratio, Rat(3, 2)) THEN 10 ELSE 0,
      debt |-> IF Gt(debt_to_equity, Num(2)) THEN 25
               ELSE IF Gt(debt_to_equity, Num(1)) THEN 10 ELSE 0,
      profitability |-> IF Lt(roe, Num(5)) THEN 20 ELSE IF Lt(roe, Num(10)) THEN 10 ELSE 0,
      growth |-> IF revenue_growth < -10 THEN 15 ELSE IF revenue_growth < 0 THEN 5 ELSE 0 ]

\* the four inputs of a record lie on the given thresholds
OnThresholds(stock, metrics, current_ratio, debt_to_equity, roe, revenue_growth) ==
    /\ Eq(metrics.current_ratio, current_ratio)
    /\ Eq(metrics.debt_to_equity, debt_to_equity)
    /\ Eq(metrics.roe, roe)
    /\ stock.revenue_growth = revenue_growth

\* C25: the risk score is the sum of the four band contributions (liquidity
\* 25/10/0 on current_ratio < 1 / < 1.5, debt 25/10/0 on debt_to_equity > 2 / > 1,
\* profitability 20/10/0 on roe < 5 / < 10, growth 15/5/0 on revenue_growth
\* < -10 / < 0); the comparisons are strict: a value on a threshold falls in the
\* lower-risk band.
C25_RiskScoreIsTheSumOfFourBands ==
    Returned("analyze") =>
        LET metrics == calculate_all_metrics(call.stock)
            table == RiskTable(metrics.current_ratio, metrics.debt_to_equity, metrics.roe,
                               call.stock.revenue_growth)
        IN  /\ ret.risk_score
                  = table.liquidity + table.debt + table.profitability + table.growth
            /\ OnThresholds(call.stock, metrics, Num(1), Num(2), Num(5), -10)
                  => ret.risk_score = 10 + 10 + 10 + 5
            /\ OnThresholds(call.stock, metrics, Rat(3, 2), Num(1), Num(10), 0)
                  => ret.risk_score = 0

C25_Witness ==
    /\ Returned("analyze")
    /\ OnThresholds(call.stock, calculate_all_metrics(call.stock), Num(1), Num(2), Num(5), -10)
    /\ ret.risk_score = 35

\* The four band contributions to the strength score: roe, debt_to_equity,
\* current_ratio, revenue_growth
StrengthBands(stock, metrics) ==
    << IF Gt(metrics.roe, Num(15)) THEN 25 ELSE IF Gt(metrics.roe, Num(10)) THEN 15
       ELSE IF Gt(metrics.roe, Num(5)) THEN 5 ELSE 0,
       IF Lt(metrics.debt_to_equity, Rat(1, 2)) THEN 25
       ELSE IF Lt(metrics.debt_to_equity, Num(1)) THEN 15
       ELSE IF Lt(metrics.debt_to_equity, Num(2)) THEN 5 ELSE 0,
       IF Gt(metrics.current_ratio, Rat(3, 2)) THEN 25
       ELSE IF Gt(metrics.current_ratio, Num(1)) THEN 15 ELSE 0,
       IF stock.revenue_growth > 10 THEN 25 ELSE IF stock.revenue_growth > 5 THEN 15
       ELSE IF stock.revenue_growth > 0 THEN 5 ELSE 0 >>

StrengthLabels == <<"VERY_WEAK", "WEAK", "MODERATE", "STRONG", "VERY_STRONG">>

LabelRank(label) == CHOOSE k \in 1..Len(StrengthLabels) : StrengthLabels[k] = label

\* the records that differ from stock in one of the four inputs, which is better:
\* a higher income (roe), a lower debt, more cash (current_ratio), a higher growth
OneInputImproved(stock) ==
         {[stock EXCEPT !.net_income = v] : v \in {x \in BandNetIncomes : x > stock.net_income}}
    \cup {[stock EXCEPT !.debt = v] : v \in {x \in BandDebts : x < stock.debt}}
    \cup {[stock EXCEPT !.cash = v] : v \in {x \in BandCash : x > stock.cash}}
    \cup {[stock EXCEPT !.revenue_growth = v] :
             v \in {x \in BandRevenueGrowths : x > stock.revenue_growth}}

\* C26: the fundamental-strength label is one of the five labels and is determined
\* by the sum s of four band contributions (roe, debt_to_equity, current_ratio,
\* revenue_growth), each between 0 and 25: VERY_STRONG iff s >= 80, STRONG iff
\* 60 <= s < 80, MODERATE iff 40 <= s < 60, WEAK iff 20 <= s < 40, VERY_WEAK iff
\* s < 20; improving one of the four inputs never lowers the label.
C26_StrengthLabelFollowsTheBandSum ==
    Returned("analyze") =>
        LET bands == StrengthBands(call.stock, calculate_all_metrics(call.stock))
            s == bands[1] + bands[2] + bands[3] + bands[4]
            label == ret.fundamental_strength
        IN  /\ \A i \in 1..4 : bands[i] \in 0..25
            /\ label \in Tags(StrengthLabels)
            /\ (label = "VERY_STRONG") = (s >= 80)
            /\ (label = "STRONG") = (60 <= s /\ s < 80)
            /\ (label = "MODERATE") = (40 <= s /\ s < 60)
            /\ (label = "WEAK") = (20 <= s /\ s < 40)
            /\ (label = "VERY_WEAK") = (s < 20)
            /\ call.stock \in BandEdgeRecords =>
                  \A better \in OneInputImproved(call.stock) :
                      LabelRank(analyze(better).fundamental_strength) >= LabelRank(label)

C26_Witness ==
    /\ Returned("analyze")
    /\ call.stock \in BandEdgeRecords
    /\ StrengthBands(call.stock, calculate_all_metrics(call.stock)) = <<25, 25, 25, 5>>
    /\ ret.fundamental_strength = "VERY_STRONG"
    /\ \E better \in OneInputImproved(call.stock) : better.revenue_growth = 11

\* the operations of the builder that read the registry
RegistryReaders == {"screen_with_custom_strategy", "get_strategy_info", "list_strategies"}

\* C27: the registry changes only through create_strategy, which adds exactly one
\* new key and leaves every existing entry unchanged; screen_with_custom_strategy,
\* get_strategy_info and list_strategies leave the registry unchanged whether they
\* succeed or fail, so a registered id stays resolvable after any later operation.
C27_RegistryChangesOnlyThroughCreateStrategy ==
    [][ /\ (custom_strategies' # custom_strategies) =>
              (pc = "idle" /\ pc' = "done" /\ call'.op = "create_strategy")
        /\ (pc = "idle" /\ pc' = "done" /\ call'.op = "create_strategy") =>
              /\ ~dict_has(custom_strategies, ret')
              /\ dict_keys(custom_strategies') = Append(dict_keys(custom_strategies), ret')
              /\ dict_get(custom_strategies', ret') = strategy_entry(call'.name, call'.rules)
        /\ (pc = "idle" /\ pc' = "done" /\ call'.op \in RegistryReaders) =>
              custom_strategies' = custom_strategies
        /\ \A k \in 1..Len(custom_strategies) :
              /\ dict_has(custom_strategies', custom_strategies[k].id)
              /\ dict_get(custom_strategies', custom_strategies[k].id)
                    = custom_strategies[k].value ]_vars

C27_Witness ==
    /\ Called("screen_with_custom_strategy")
    /\ raised = "ZeroDivisionError"
    /\ Len(custom_strategies) = 2
    /\ dict_keys(custom_strategies) = [k \in 1..Len(created) |-> created[k][2]]
    /\ dict_get(custom_strategies, created[1][2]).rules # <<>>

\* the highest score of each scorer
HighestScore ==
    [ VALUE_INVESTING |-> 100, QUALITY_INVESTING |-> 100, GROWTH_INVESTING |-> 95,
      CONTRARIAN |-> 95, DIVIDEND_INVESTING |-> 75, MOMENTUM_INVESTING |-> 70 ]

NeverReaches100 ==
    {"GROWTH_INVESTING", "CONTRARIAN", "DIVIDEND_INVESTING", "MOMENTUM_INVESTING"}

\* C28: no record scores more than 100 with the value and quality scorers, 95 with
\* growth, 95 with contrarian, 75 with dividend and 70 with momentum; screen with
\* threshold 100 therefore returns an empty list for the growth, contrarian,
\* dividend and momentum strategies, and min(100, ...) changes the result only in
\* the quality scorer.
C28_HighestScoresOfTheScorers ==
    Returned("screening_func") =>
        LET total == SumPoints(BandsOf(call.strategy, call.stock, analyze(call.stock)))
        IN  /\ ret.score <= HighestScore[call.strategy]
            /\ call.strategy \in NeverReaches100 =>
                  sorted_by_score_desc(
                      screen_loop(EmptyDict, <<call.stock>>, strategies_get(call.strategy),
                                  call.strategy, Num(100)).results) = <<>>
            /\ ret.score # total => call.strategy = "QUALITY_INVESTING"

C28_Witness ==
    /\ Returned("screening_func")
    /\ call.strategy = "DIVIDEND_INVESTING"
    /\ ret.score = HighestScore["DIVIDEND_INVESTING"]
    /\ screen_loop(EmptyDict, <<call.stock>>, "_screen_dividend", call.strategy,
                   Num(100)).results = <<>>
    /\ screen_loop(EmptyDict, <<call.stock>>, "_screen_dividend", call.strategy,
                   Num(75)).results # <<>>

\* each scorer reaches its highest score
ReachesHighestScore(strategy) ==
    /\ Returned("screening_func")
    /\ call.strategy = strategy
    /\ ret.score = HighestScore[strategy]

\* C29: create_strategy accepts an empty rule list and registers it;
\* screen_with_custom_strategy on such a strategy fails with a division-by-zero
\* error as soon as the stock list is non-empty (no result is returned for any
\* stock), and returns an empty list only when the stock list is empty.
C29_EmptyRuleListDividesByZero ==
    /\ (Called("create_strategy") /\ call.rules = <<>>) =>
          /\ raised = "none"
          /\ dict_has(custom_strategies, ret)
          /\ dict_get(custom_strategies, ret) = strategy_entry(call.name, <<>>)
    /\ ( /\ Called("screen_with_custom_strategy")
         /\ dict_has(custom_strategies, call.strategy_id)
         /\ dict_get(custom_strategies, call.strategy_id).rules = <<>> ) =>
          IF call.stocks # <<>>
          THEN raised = "ZeroDivisionError" /\ ret = NoValue
          ELSE raised = "none" /\ ret = <<>>
    /\ ( /\ Returned("screen_with_custom_strategy")
         /\ dict_get(custom_strategies, call.strategy_id).rules = <<>> ) =>
          call.stocks = <<>>

C29_Witness ==
    /\ Called("screen_with_custom_strategy")
    /\ dict_has(custom_strategies, call.strategy_id)
    /\ dict_get(custom_strategies, call.strategy_id).rules = <<>>
    /\ Len(call.stocks) = 2
    /\ call.threshold = Num(0)
    /\ raised = "ZeroDivisionError"
    /\ ret = NoValue
    /\ trace = <<<<"analyze", call.stocks[1].symbol>>>>

\* the tag of the rule at index i of a strategy, i < 10
RuleTag(i) == <<"R", "U", "L", "E", "_", Digits[i + 1]>>

\* the indices, from 0, of the rules of the strategy called that return true for a
\* stock
MatchedIndices(stock) ==
    {k \in 0..(Len(CalledRules) - 1) :
        rule_call(CalledRules[k + 1], stock, analyze(stock)) = "true"}

\* signals is the list of the tags of the indices, in ascending order
TagsOfIndicesAscending(signals, indices) ==
    /\ Len(signals) = Cardinality(indices)
    /\ \A k \in indices : \E j \in 1..Len(signals) : signals[j] = RuleTag(k)
    /\ \A i, j \in 1..Len(signals) :
          i < j => \E k, l \in indices : k < l /\ signals[i] = RuleTag(k)
                                              /\ signals[j] = RuleTag(l)

\* C30: every result of screen_with_custom_strategy carries the strategy identifier
\* VALUE_INVESTING whatever custom strategy was screened, a score >= the threshold,
\* and as signals exactly the tags RULE_i of the rules that matched, in ascending
\* index order; every result of ScreeningEngine.screen carries the requested
\* strategy kind.
C30_ResultsCarryStrategyScoreAndRuleTags ==
    /\ Returned("screen_with_custom_strategy") =>
          \A j \in 1..Len(ret) :
              /\ ret[j].strategy = "VALUE_INVESTING"
              /\ Ge(ret[j].score, call.threshold)
              /\ \E i \in 1..Len(call.stocks) :
                    /\ call.stocks[i].symbol = ret[j].symbol
                    /\ TagsOfIndicesAscending(ret[j].signals, MatchedIndices(call.stocks[i]))
    /\ Returned("screen") =>
          \A j \in 1..Len(ret) : ret[j].strategy = call.strategy

C30_Witness ==
    /\ Returned("screen_with_custom_strategy")
    /\ call.threshold = Num(50)
    /\ Len(ret) = 1
    /\ ret[1].strategy = "VALUE_INVESTING"
    /\ ret[1].signals = <<RuleTag(0), RuleTag(2)>>
    /\ Len(call.stocks) = 2

====
